---------------------------- MODULE Spec2Model ----------------------------
(***************************************************************************)
(* temp-box: disposable inboxes on top of a public mail API.               *)
(*                                                                         *)
(* The repository holds two builds of the inbox hook and of the cleanup    *)
(* service, which cannot be linked together (same module names):           *)
(*                                                                         *)
(*   build "timer"    src/src/hooks/useInbox.ts (countdown tick,           *)
(*                    handleExpiredInbox, 'cleanup-logs') with the         *)
(*                    CleanupService of src/src/components/AdSenseAd.tsx   *)
(*   build "storage"  src/unnamed/part_000 (the hook that records          *)
(*                    accounts), src/unnamed/part_004 (StorageService)     *)
(*                    and src/src/services/cleanupService.ts               *)
(*                                                                         *)
(* The variable build says which one a behaviour runs.  Time is counted    *)
(* in seconds; Date values are numbers of seconds, and what localStorage   *)
(* holds is the JSON form, in which a Date is an ISO string.               *)
(***************************************************************************)
EXTENDS Integers, Sequences, FiniteSets

(***************************************************************************)
(* Bounds of the model.                                                    *)
(***************************************************************************)
\* the clock is advanced at most this many times
MaxTicks == 3
\* provider account ids handed out in one behaviour: 1..MaxAccounts
MaxAccounts == 2

(***************************************************************************)
(* Program constants.                                                      *)
(***************************************************************************)
MAX_AUDIT_ENTRIES == 1000
MAX_ACCOUNTS_STORED == 50
\* DATA_RETENTION: thirtyDaysAgo.setDate(getDate() - 30), in seconds
ThirtyDays == 30 * 24 * 60 * 60

(***************************************************************************)
(* Optional values: localStorage.getItem gives null for a missing key.     *)
(***************************************************************************)
None == << >>
Some(v) == << v >>
IsSome(o) == Len(o) = 1
Get(o) == o[1]

(***************************************************************************)
(* Dates and JSON.  JSON.stringify writes a Date as its ISO string; the    *)
(* readers turn the string back with new Date(string).                     *)
(***************************************************************************)
DateToJSON(d) == [iso |-> d]
NewDate(j) == j.iso

Min(a, b) == IF a <= b THEN a ELSE b

Front(s) == SubSeq(s, 1, Len(s) - 1)
Last(s) == s[Len(s)]
Slice(s, from, to) == SubSeq(s, from + 1, Min(to, Len(s)))
SeqRange(s) == {s[i] : i \in DOMAIN s}
CountOf(s, e) ==
    CHOOSE n \in {Cardinality({i \in DOMAIN list : list[i] = e}) : list \in {s}} : TRUE
\* Array.prototype.filter: the elements of s at the indices in keep, in
\* their order in s
RECURSIVE KeepUpTo(_, _, _)
KeepUpTo(s, keep, upto) ==
    IF upto = 0 THEN << >>
    ELSE IF upto \in keep
         THEN Append(KeepUpTo(s, keep, upto - 1), s[upto])
         ELSE KeepUpTo(s, keep, upto - 1)
KeepIndices(s, keep) ==
    IF keep = 1 .. Cardinality(keep)
    THEN SubSeq(s, 1, Cardinality(keep))
    ELSE KeepUpTo(s, keep, Len(s))

(***************************************************************************)
(* Array.prototype.sort with the comparator (a, b) => key(b) - key(a): a   *)
(* stable sort, largest key first.  keys[i] is the key of element i; the   *)
(* result lists the indices in their sorted order.                         *)
(***************************************************************************)
IsSortedDesc(keys) == \A i \in 1 .. Len(keys) - 1 : keys[i] >= keys[i + 1]
RankDesc(keys, i) ==
    1 + Cardinality({j \in DOMAIN keys :
                        keys[j] > keys[i] \/ (keys[j] = keys[i] /\ j < i)})
SortDescOrder(keys) ==
    LET n == Len(keys)
    IN  IF n <= 1 THEN [i \in 1 .. n |-> i]
        ELSE IF IsSortedDesc(Front(keys))
        \* the stored list is sorted already and one element was pushed:
        \* it goes behind the elements whose key is not smaller
             THEN LET p == 1 + Cardinality({j \in 1 .. n - 1 : keys[j] >= keys[n]})
                  IN  [i \in 1 .. n |->
                          IF i < p THEN i ELSE IF i = p THEN n ELSE i - 1]
             ELSE [r \in 1 .. n |-> CHOOSE i \in 1 .. n : RankDesc(keys, i) = r]
SortDesc(s, keys) ==
    CHOOSE sorted \in {[r \in DOMAIN list |-> list[order[r]]] :
                          list \in {s}, order \in {SortDescOrder(keys)}} : TRUE

(***************************************************************************)
(* StorageService (src/unnamed/part_004).  Every operation reads the       *)
(* items it needs from localStorage, changes them and writes them back;    *)
(* the operators below take the items and give the items written.          *)
(***************************************************************************)
\* (a variant that writes the dates without the time of day)
SerializeAccountToDay(a) ==
    [a EXCEPT !.createdAt = DateToJSON(@ - (@ % 86400)),
              !.expiresAt = DateToJSON(@ - (@ % 86400)),
              !.lastAccessedAt = DateToJSON(@ - (@ % 86400))]
SerializeAccount(a) ==
    [a EXCEPT !.createdAt = DateToJSON(@), !.expiresAt = DateToJSON(@),
              !.lastAccessedAt = DateToJSON(@)]
ReviveAccount(j) ==
    [j EXCEPT !.createdAt = NewDate(@), !.expiresAt = NewDate(@),
              !.lastAccessedAt = NewDate(@)]
saveAccounts(accounts) ==
    Some(CHOOSE json \in {[i \in DOMAIN list |-> SerializeAccount(list[i])] :
                              list \in {accounts}} : TRUE)
\* A stored text that is not the JSON of a list of entries stands in the
\* model as a list that ends with a mark: one for a text JSON.parse
\* rejects, one for a JSON value that is not a list, one for a null that
\* follows the entries.
InvalidJSON == [malformed |-> "invalid JSON"]
NotAList == [malformed |-> "not a list"]
NullEntry == [malformed |-> "null"]
IsMark(e) == "malformed" \in DOMAIN e
\* JSON.parse(stored) throws a SyntaxError
JSONParseThrows(text) == Len(text) > 0 /\ text[Len(text)] = InvalidJSON
\* parsed.map(...) throws a TypeError: the value has no map, or the
\* callback reads a property of null
MapThrows(parsed) == Len(parsed) > 0 /\ parsed[Len(parsed)] \in {NotAList, NullEntry}
\* the try block of a read throws
ReadThrows(item) ==
    \E stored \in {item} :
        IsSome(stored) /\ \E text \in {Get(stored)} : JSONParseThrows(text) \/ MapThrows(text)
\* (a variant whose catch gives the entries revived before the throw)
getStoredAccountsUpToThrow(item) ==
    IF ~IsSome(item) THEN << >>
    ELSE LET json == Get(item)
             good == {i \in DOMAIN json : \A j \in 1 .. i : ~IsMark(json[j])}
         IN  [i \in 1 .. Cardinality(good) |-> ReviveAccount(json[i])]
\* getStoredAccounts: its catch returns []
getStoredAccounts(item) ==
    CHOOSE accounts \in
        {IF ~IsSome(stored) THEN << >>
         ELSE IF ReadThrows(stored) THEN << >>
         ELSE CHOOSE revived \in {[i \in DOMAIN json |-> ReviveAccount(json[i])] :
                                     json \in {Get(stored)}} : TRUE :
            stored \in {item}} : TRUE

\* accounts.findIndex(a => a.id === accountId); 0 stands for -1
findIndex(accounts, accountId) ==
    LET hits == {i \in DOMAIN accounts : accounts[i].id = accountId}
    IN  IF hits = {} THEN 0 ELSE CHOOSE i \in hits : \A j \in hits : i <= j
getStoredAccount(item, accountId) ==
    LET accounts == getStoredAccounts(item)
        i == findIndex(accounts, accountId)
    IN  IF i = 0 THEN None ELSE Some(accounts[i])

SerializeEntry(e) == [e EXCEPT !.timestamp = DateToJSON(@)]
ReviveEntry(j) == [j EXCEPT !.timestamp = NewDate(@)]
\* getAuditLog: its catch returns []
getAuditLog(item) ==
    CHOOSE entries \in
        {IF ~IsSome(stored) THEN << >>
         ELSE IF ReadThrows(stored) THEN << >>
         ELSE CHOOSE revived \in {[i \in DOMAIN json |-> ReviveEntry(json[i])] :
                                     json \in {Get(stored)}} : TRUE :
            stored \in {item}} : TRUE
writeAuditLog(entries) ==
    Some(CHOOSE json \in {[i \in DOMAIN list |-> SerializeEntry(list[i])] :
                              list \in {entries}} : TRUE)

\* (a variant that keeps the first MAX_AUDIT_ENTRIES without sorting)
TrimAuditLogUnsorted(entries) == Slice(entries, 0, MAX_AUDIT_ENTRIES)
\* the entries kept: sorted newest first, the first MAX_AUDIT_ENTRIES of them
TrimAuditLog(entries) ==
    CHOOSE kept \in {Slice(SortDesc(log, [i \in DOMAIN log |-> log[i].timestamp]),
                           0, MAX_AUDIT_ENTRIES) : log \in {entries}} : TRUE
addAuditLogEntry(auditItem, accountId, action, t) ==
    LET entry == [accountId |-> accountId, action |-> action, timestamp |-> t]
    IN  writeAuditLog(TrimAuditLog(Append(getAuditLog(auditItem), entry)))

NewStoredAccount(id, address, password, token, expiresAt, t) ==
    [id |-> id, address |-> address, password |-> password, token |-> token,
     createdAt |-> t, expiresAt |-> expiresAt, deleted |-> FALSE,
     lastAccessedAt |-> t, messageCount |-> 0, cleanupAttempts |-> 0]
\* the accounts kept: newest first, the first MAX_ACCOUNTS_STORED of them
KeepRecentAccounts(accounts) ==
    Slice(SortDesc(accounts, [i \in DOMAIN accounts |-> accounts[i].createdAt]),
          0, MAX_ACCOUNTS_STORED)
\* storeAccount: the accounts item it writes
storeAccountItem(accountsItem, stored) ==
    LET accounts == getStoredAccounts(accountsItem)
        filtered == KeepIndices(accounts,
                        {i \in DOMAIN accounts : accounts[i].id # stored.id})
    IN  saveAccounts(KeepRecentAccounts(Append(filtered, stored)))

\* The operations below take and give st = [accounts |-> the item under
\* 'tempbox-accounts', audit |-> the item under 'tempbox-audit-log'].
storeAccount(st, stored, t) ==
    [accounts |-> storeAccountItem(st.accounts, stored),
     audit |-> addAuditLogEntry(st.audit, stored.id, "CREATED", t)]
\* (a variant that writes the account back as a live one)
updateAccountAccessReopens(st, accountId, messageCount, t) ==
    LET accounts == getStoredAccounts(st.accounts)
        i == findIndex(accounts, accountId)
    IN  IF i = 0 THEN st
        ELSE [accounts |-> saveAccounts([accounts EXCEPT ![i].lastAccessedAt = t,
                                                         ![i].messageCount = messageCount,
                                                         ![i].deleted = FALSE]),
              audit |-> addAuditLogEntry(st.audit, accountId, "ACCESSED", t)]
updateAccountAccess(st, accountId, messageCount, t) ==
    LET accounts == getStoredAccounts(st.accounts)
        i == findIndex(accounts, accountId)
    IN  IF i = 0 THEN st
        ELSE [accounts |-> saveAccounts([accounts EXCEPT ![i].lastAccessedAt = t,
                                                         ![i].messageCount = messageCount]),
              audit |-> addAuditLogEntry(st.audit, accountId, "ACCESSED", t)]
markAccountDeleted(st, accountId, t) ==
    LET accounts == getStoredAccounts(st.accounts)
        i == findIndex(accounts, accountId)
    IN  IF i = 0 THEN st
        ELSE [accounts |-> saveAccounts([accounts EXCEPT ![i].deleted = TRUE]),
              audit |-> addAuditLogEntry(st.audit, accountId, "DELETED", t)]
\* (a variant that notes that the account was attempted, without counting)
incrementCleanupAttemptsToOne(st, accountId, t) ==
    LET accounts == getStoredAccounts(st.accounts)
        i == findIndex(accounts, accountId)
    IN  IF i = 0 THEN st
        ELSE [accounts |-> saveAccounts([accounts EXCEPT ![i].cleanupAttempts = 1]),
              audit |-> addAuditLogEntry(st.audit, accountId, "CLEANUP_ATTEMPTED", t)]
incrementCleanupAttempts(st, accountId, t) ==
    LET accounts == getStoredAccounts(st.accounts)
        i == findIndex(accounts, accountId)
    IN  IF i = 0 THEN st
        ELSE [accounts |-> saveAccounts([accounts EXCEPT ![i].cleanupAttempts = @ + 1]),
              audit |-> addAuditLogEntry(st.audit, accountId, "CLEANUP_ATTEMPTED", t)]
\* (a variant that gives up on the account)
recordCleanupFailureAndMark(st, accountId, t) == markAccountDeleted(st, accountId, t)
recordCleanupFailure(st, accountId, t) ==
    [st EXCEPT !.audit = addAuditLogEntry(@, accountId, "CLEANUP_FAILED", t)]

\* (a variant that gives up on an account after a failed attempt)
IsExpiredAccountUntried(a, t) == ~a.deleted /\ a.expiresAt < t /\ a.cleanupAttempts = 0
\* (a variant that gives the accounts marked deleted as well)
IsExpiredAccountOrDeleted(a, t) == a.expiresAt < t
\* getExpiredAccounts: not deleted and expiresAt < now
IsExpiredAccount(a, t) == ~a.deleted /\ a.expiresAt < t
\* (a variant that loses the last account it should give)
getExpiredAccountsButLast(accountsItem, t) ==
    LET accounts == getStoredAccounts(accountsItem)
    IN  Front(KeepIndices(accounts,
                  {i \in DOMAIN accounts : IsExpiredAccount(accounts[i], t)}))
getExpiredAccounts(accountsItem, t) ==
    LET accounts == getStoredAccounts(accountsItem)
    IN  KeepIndices(accounts, {i \in DOMAIN accounts : IsExpiredAccount(accounts[i], t)})

\* cleanupOldData: keeps what is younger than thirty days and writes both
\* items, also when the key was missing
cleanupOldData(st, t) ==
    LET accounts == getStoredAccounts(st.accounts)
        auditLog == getAuditLog(st.audit)
        thirtyDaysAgo == t - ThirtyDays
    IN  [accounts |-> saveAccounts(KeepIndices(accounts,
                          {i \in DOMAIN accounts : accounts[i].createdAt > thirtyDaysAgo})),
         audit |-> writeAuditLog(KeepIndices(auditLog,
                          {i \in DOMAIN auditLog : auditLog[i].timestamp > thirtyDaysAgo}))]

(***************************************************************************)
(* State.                                                                  *)
(***************************************************************************)
VARIABLES
    build,              \* "timer" or "storage": which build runs
    now,                \* the wall clock, in seconds
    accountsItem,       \* localStorage['tempbox-accounts']
    auditItem,          \* localStorage['tempbox-audit-log']
    sessionItem,        \* localStorage['inbox-state']
    cleanupLogsItem,    \* localStorage['cleanup-logs']
    apiToken,           \* the bearer token held by mailApi
    lastOp,             \* the last StorageService call and what it returned
    opsLeft,            \* how many calls the user may still make
    isCleanupRunning,   \* cleanupService.isCleanupRunning
    cleanupIntervalId,  \* cleanupService.cleanupIntervalId is set
    initialTimeouts,    \* pending 5 s timeouts of startAutomatedCleanup
    sweeps,             \* the runCleanupCycle calls that are awaiting
    legacySweeps,       \* the runCleanup calls that are awaiting
    forcedCleanups,     \* the forceCleanupAccount calls that are awaiting
    lastReturn,         \* what the last sweep call returned
    triggersLeft,       \* how many sweep calls may still be made
    failuresLeft,       \* how many provider calls may still fail
    deleteCalls,        \* deleteAccount calls issued so far
    inboxState,         \* the hook's inboxState
    timeRemaining,      \* the hook's timeRemaining (timer build), in seconds
    domains,            \* the data of the domains query
    creates,            \* createInbox mutations that are awaiting
    deletes,            \* deleteInbox mutations that are awaiting
    expiries,           \* handleExpiredInbox calls that are awaiting
    messagesQuery,      \* the messages query of the current account
    lastHook,           \* the last call of the hook that ended, and how
    nextId,             \* the id the provider gives to the next account
    fetchesLeft,        \* how many fetches of messages may still start
    createCalls         \* createAccount calls issued so far

storageVars == << accountsItem, auditItem >>
browserVars == << sessionItem, cleanupLogsItem, apiToken >>
opVars == << lastOp, opsLeft >>
schedulerVars == << cleanupIntervalId, initialTimeouts >>
sweepVars ==
    << isCleanupRunning, sweeps, legacySweeps, forcedCleanups, lastReturn, triggersLeft, deleteCalls >>
hookVars ==
    << inboxState, timeRemaining, domains, creates, deletes, expiries,
       messagesQuery, lastHook, nextId, fetchesLeft, createCalls >>
vars ==
    << build, now, storageVars, browserVars, opVars, schedulerVars, sweepVars,
       failuresLeft, hookVars >>

Storage == [accounts |-> accountsItem, audit |-> auditItem]
WriteStorage(st) == accountsItem' = st.accounts /\ auditItem' = st.audit

\* what a call of the StorageService leaves alone
besideStorage ==
    << build, now, browserVars, schedulerVars, sweepVars, failuresLeft, hookVars >>

NoOp == [op |-> "none", id |-> 0, stored |-> None]
ZeroResult == [processed |-> 0, successful |-> 0, failed |-> 0]
NoReturn ==
    [status |-> "none", result |-> ZeroResult, at |-> 0, stored |-> {},
     started |-> << >>, logged |-> {}, unstored |-> {}]

\* nothing is scheduled and no sweep is awaiting
InitCleanupIdle ==
    /\ isCleanupRunning = FALSE
    /\ cleanupIntervalId = FALSE
    /\ initialTimeouts = 0
    /\ sweeps = << >>
    /\ legacySweeps = << >>
    /\ forcedCleanups = << >>
    /\ lastReturn = NoReturn
    /\ deleteCalls = 0

(***************************************************************************)
(* The persisted session, localStorage['inbox-state']: the JSON form of    *)
(* the hook's inboxState.  null is None, a Date is its ISO string.         *)
(***************************************************************************)
DateOrNullToJSON(o) == IF IsSome(o) THEN Some(DateToJSON(Get(o))) ELSE None
\* parsed.x ? new Date(parsed.x) : null
NewDateOrNull(o) == IF IsSome(o) THEN Some(NewDate(Get(o))) ELSE None

\* JSON.stringify(newState)
SessionToJSON(state) ==
    IF "createdAt" \in DOMAIN state
    THEN [state EXCEPT !.expiresAt = DateOrNullToJSON(@),
                       !.createdAt = DateOrNullToJSON(@)]
    ELSE [state EXCEPT !.expiresAt = DateOrNullToJSON(@)]
\* the anonymous inboxState of each build; the empty password is 0
AnonymousState ==
    IF build = "timer"
    THEN [account |-> None, password |-> 0, isAuthenticated |-> FALSE,
          expiresAt |-> None, token |-> None, createdAt |-> None]
    ELSE [account |-> None, password |-> 0, isAuthenticated |-> FALSE,
          expiresAt |-> None, token |-> None]
\* the initializer of useState: the saved session, if it is one
RestoreInboxState(saved) ==
    IF IsSome(saved) /\ IsSome(Get(saved).account) /\ Get(saved).isAuthenticated
                     /\ IsSome(Get(saved).token)
    THEN IF build = "timer"
         THEN [Get(saved) EXCEPT !.expiresAt = NewDateOrNull(@),
                                 !.createdAt = NewDateOrNull(@)]
         ELSE [Get(saved) EXCEPT !.expiresAt = NewDateOrNull(@)]
    ELSE AnonymousState
RemainingNeverZero(expiresAt, t) == IF expiresAt - t > 1 THEN expiresAt - t ELSE 1
\* updateTimer: Math.max(0, Math.floor((expiresAt - now) / 1000))
Remaining(expiresAt, t) == IF expiresAt - t > 0 THEN expiresAt - t ELSE 0
\* a query that has not fetched: no data, no error, no retry made
\* the message of the error the provider gives for an account it has deleted
AccountGone == "This account no longer exists."
\* the messages query: its status, the failures of the fetch in a row, the
\* retry delays it has waited through, and the error it has ended with
IdleQuery == [status |-> "idle", failureCount |-> 0, delays |-> << >>, error |-> "none"]
NoHook == [op |-> "none", outcome |-> "none", id |-> 0, at |-> 0]
\* the hook as it mounts over the saved session: nothing is awaiting
InitHookIdle ==
    /\ inboxState = RestoreInboxState(sessionItem)
    /\ apiToken = inboxState.token
    /\ timeRemaining =
          IF build = "timer" /\ inboxState.isAuthenticated /\ IsSome(inboxState.expiresAt)
          THEN Remaining(Get(inboxState.expiresAt), now)
          ELSE 0
    /\ creates = << >>
    /\ deletes = << >>
    /\ expiries = << >>
    /\ messagesQuery = IdleQuery
    /\ lastHook = NoHook
    /\ nextId = 1
    /\ createCalls = 0

(***************************************************************************)
(* The clock.  It is read by new Date() and moves between the steps of     *)
(* the program, here in jumps of the build's inbox lifetime: an hour in    *)
(* the timer build, ten minutes in the storage build.                      *)
(***************************************************************************)
ClockStep == IF build = "timer" THEN 60 * 60 ELSE 10 * 60
AdvanceClock ==
    /\ now + ClockStep <= MaxTicks * ClockStep
    /\ now' = now + ClockStep
    /\ UNCHANGED << hookVars, build, storageVars, browserVars, opVars, schedulerVars,
                    sweepVars, failuresLeft >>

(***************************************************************************)
(* Direct use of the StorageService: the inputs of its operations are      *)
(* drawn from small sets, and the store starts with what earlier           *)
(* sessions left in localStorage.                                          *)
(***************************************************************************)
\* direct calls made in one behaviour, from a store that is not full
MaxOps == 3
\* direct calls made in one behaviour, from a store at its capacity
MaxFullOps == 1
\* the time thirty days before the model starts
OldTime == 0 - ThirtyDays
\* accounts 101, 102, ... left by earlier sessions, all created at time c
EarlierAccounts(k, c) ==
    [i \in 1 .. k |-> NewStoredAccount(100 + i, 100 + i, 100 + i, 100 + i, c + 600, c)]
\* their audit log: one CREATED entry each, then ACCESSED entries of the
\* last one up to n entries
EarlierAuditLog(k, n, c) ==
    [i \in 1 .. n |->
        [accountId |-> 100 + Min(i, k),
         action |-> IF i <= k THEN "CREATED" ELSE "ACCESSED",
         timestamp |-> c]]
EarlierStorage(k, n, c) ==
    [accounts |-> saveAccounts(EarlierAccounts(k, c)),
     audit |-> writeAuditLog(EarlierAuditLog(k, n, c))]
\* a new browser profile, and one with two accounts that are thirty days old
SmallStorage ==
    { [accounts |-> None, audit |-> None], EarlierStorage(2, 3, OldTime) }
\* the account store at its capacity, with accounts of this very second or
\* of ten minutes ago, and with it the audit log at its capacity or not
FullStorage ==
    { EarlierStorage(MAX_ACCOUNTS_STORED, MAX_ACCOUNTS_STORED, 0),
      EarlierStorage(MAX_ACCOUNTS_STORED, MAX_AUDIT_ENTRIES, 0 - 600) }

InitStorageFrom(stores, budget) ==
    /\ build = "storage"
    /\ now = 0
    /\ \E st \in stores : accountsItem = st.accounts /\ auditItem = st.audit
    /\ lastOp = NoOp
    /\ opsLeft = budget
    /\ sessionItem = None
    /\ cleanupLogsItem = None
    /\ InitCleanupIdle
    /\ triggersLeft = 0
    /\ failuresLeft = 0
    /\ domains = << >>
    /\ fetchesLeft = 0
    /\ InitHookIdle
InitStorage == InitStorageFrom(SmallStorage, MaxOps)
InitStorageFull == InitStorageFrom(FullStorage, MaxFullOps)

StoredIds == {a.id : a \in SeqRange(getStoredAccounts(accountsItem))}
\* the ids an operation is called with: new ones, and ones in the store
OpIds == {1, 101}

StoreAccountOp ==
    /\ opsLeft > 0
    /\ \E id \in 1 .. MaxAccounts, life \in {600, 3600} :
         LET stored == NewStoredAccount(id, id, id, id, now + life, now)
         IN  /\ WriteStorage(storeAccount(Storage, stored, now))
             /\ lastOp' = [op |-> "storeAccount", id |-> id, stored |-> Some(stored)]
    /\ opsLeft' = opsLeft - 1
    /\ UNCHANGED besideStorage
UpdateAccountAccessOp ==
    /\ opsLeft > 0
    /\ \E id \in OpIds, messageCount \in {0, 2} :
         /\ WriteStorage(updateAccountAccess(Storage, id, messageCount, now))
         /\ lastOp' = [op |-> "updateAccountAccess", id |-> id, stored |-> None]
    /\ opsLeft' = opsLeft - 1
    /\ UNCHANGED besideStorage
MarkAccountDeletedOp ==
    /\ opsLeft > 0
    /\ \E id \in OpIds :
         /\ WriteStorage(markAccountDeleted(Storage, id, now))
         /\ lastOp' = [op |-> "markAccountDeleted", id |-> id, stored |-> None]
    /\ opsLeft' = opsLeft - 1
    /\ UNCHANGED besideStorage
IncrementCleanupAttemptsOp ==
    /\ opsLeft > 0
    /\ \E id \in OpIds :
         /\ WriteStorage(incrementCleanupAttempts(Storage, id, now))
         /\ lastOp' = [op |-> "incrementCleanupAttempts", id |-> id, stored |-> None]
    /\ opsLeft' = opsLeft - 1
    /\ UNCHANGED besideStorage
RecordCleanupFailureOp ==
    /\ opsLeft > 0
    /\ \E id \in OpIds :
         /\ WriteStorage(recordCleanupFailure(Storage, id, now))
         /\ lastOp' = [op |-> "recordCleanupFailure", id |-> id, stored |-> None]
    /\ opsLeft' = opsLeft - 1
    /\ UNCHANGED besideStorage
CleanupOldDataOp ==
    /\ opsLeft > 0
    /\ WriteStorage(cleanupOldData(Storage, now))
    /\ lastOp' = [op |-> "cleanupOldData", id |-> 0, stored |-> None]
    /\ opsLeft' = opsLeft - 1
    /\ UNCHANGED besideStorage
\* clearAllData: removes both items (and the statistics), and the session key
ClearAllDataOp ==
    /\ build = "storage"
    /\ opsLeft > 0
    /\ accountsItem' = None
    /\ auditItem' = None
    /\ sessionItem' = None
    /\ lastOp' = [op |-> "clearAllData", id |-> 0, stored |-> None]
    /\ opsLeft' = opsLeft - 1
    /\ UNCHANGED << hookVars, build, now, cleanupLogsItem, apiToken, schedulerVars, sweepVars,
                    failuresLeft >>

NextStorage ==
    \/ AdvanceClock
    \/ StoreAccountOp
    \/ UpdateAccountAccessOp
    \/ MarkAccountDeletedOp
    \/ IncrementCleanupAttemptsOp
    \/ RecordCleanupFailureOp
    \/ CleanupOldDataOp
    \/ ClearAllDataOp
SpecStorage == InitStorage /\ [][NextStorage]_vars
SpecStorageFull == InitStorageFull /\ [][NextStorage]_vars

(***************************************************************************)
(* cleanupService of the storage build (src/src/services/cleanupService.ts)*)
(* A cycle that found candidates is a record in sweeps while it awaits:    *)
(*   accounts  the candidates, as getExpiredAccounts returned them         *)
(*   i         the index (from 0) at which the current batch starts        *)
(*   phase     "batch": the batch's deletions are awaited,                 *)
(*             "delay": the pause between two batches is awaited           *)
(*   tasks     one cleanupSingleAccount call per account of the batch      *)
(*   result    the CleanupResult so far                                    *)
(* and, for the properties: at (the time the candidates were selected),   *)
(* stored (id and expiresAt of the accounts then in the store and not      *)
(* marked deleted), started (the ids cleanupSingleAccount was called for,  *)
(* in call order), logged (the ids a DELETED or CLEANUP_FAILED entry was   *)
(* written for) and unstored (the ids that had left the store when their   *)
(* result was processed).                                                  *)
(***************************************************************************)
\* DEFAULT_OPTIONS; retryDelay in seconds
maxRetries == 3
retryDelay == 2
batchSize == 5

\* cleanupSingleAccount: "Wait before retrying (exponential backoff)", the
\* delay awaited after the failed attempt, in seconds
\* (a variant that waits the same delay after every attempt)
backoffDelayFlat(attempt) == retryDelay
backoffDelay(attempt) == retryDelay * 2 ^ (attempt - 1)
\* a cleanupSingleAccount call: the attempt of its loop, whether deleteAccount
\* ("calling") or the delay ("waiting") is awaited or the call has returned
\* ("done"), the delay last awaited, and the success it returns
NewTask == [attempt |-> 1, phase |-> "calling", success |-> FALSE, delay |-> 0]
\* (a variant that takes all the remaining accounts as one batch)
BatchOfAllRemaining(accounts, i) == Slice(accounts, i, Len(accounts))
BatchOf(accounts, i) == Slice(accounts, i, i + batchSize)
IdsOf(accounts) == {accounts[k].id : k \in DOMAIN accounts}
\* the batch at index i is mapped to cleanupSingleAccount calls
StartBatch(cycle, i) ==
    LET batch == BatchOf(cycle.accounts, i)
    IN  [cycle EXCEPT !.i = i, !.phase = "batch",
                      !.tasks = [k \in DOMAIN batch |-> NewTask],
                      !.started = @ \o [k \in DOMAIN batch |-> batch[k].id]]
StoredNotDeleted(item) ==
    LET accounts == getStoredAccounts(item)
    IN  {[id |-> accounts[k].id, expiresAt |-> accounts[k].expiresAt] :
            k \in {j \in DOMAIN accounts : ~accounts[j].deleted}}
NewCycle(expiredAccounts, stored, t) ==
    StartBatch([accounts |-> expiredAccounts, i |-> 0, phase |-> "batch",
                tasks |-> << >>, result |-> ZeroResult, at |-> t, stored |-> stored,
                started |-> << >>, logged |-> {}, unstored |-> {}], 0)
RemoveAt(s, i) == SubSeq(s, 1, i - 1) \o SubSeq(s, i + 1, Len(s))

\* runCleanupCycle, finally: the flag is released
\* (a variant that leaves the flag as it is)
finallyKeepsFlag == UNCHANGED isCleanupRunning
finallyReleasesFlag == isCleanupRunning' = FALSE
\* runCleanupCycle, catch: what it returns after an exception
ThrownReturn ==
    [NoReturn EXCEPT !.status = "threw",
                     !.result = [processed |-> 0, successful |-> 0, failed |-> 1]]

\* runCleanupCycle up to its first await, or to its return
runCleanupCycleCall ==
    /\ IF isCleanupRunning
       THEN /\ lastReturn' = [NoReturn EXCEPT !.status = "skipped"]
            /\ UNCHANGED << storageVars, isCleanupRunning, sweeps, apiToken, deleteCalls >>
       ELSE \E st \in {cleanupOldData(Storage, now)} :
            \E expiredAccounts \in {getExpiredAccounts(st.accounts, now)},
               stored \in {StoredNotDeleted(st.accounts)} :
                /\ WriteStorage(st)
                /\ IF expiredAccounts = << >>
                   THEN /\ lastReturn' = [NoReturn EXCEPT !.status = "empty",
                                               !.at = now, !.stored = stored]
                        /\ UNCHANGED << isCleanupRunning, sweeps, apiToken, deleteCalls >>
                   ELSE \E cycle \in {NewCycle(expiredAccounts, stored, now)} :
                            /\ isCleanupRunning' = TRUE
                            /\ sweeps' = Append(sweeps, cycle)
                            /\ apiToken' = Some(Last(BatchOf(expiredAccounts, 0)).token)
                            /\ deleteCalls' = deleteCalls + Len(cycle.tasks)
                            /\ UNCHANGED lastReturn
    /\ UNCHANGED << hookVars, build, now, sessionItem, cleanupLogsItem, opVars, legacySweeps, forcedCleanups,
                    failuresLeft >>
\* ... as one of the calls made in a behaviour
runCleanupCycle ==
    /\ triggersLeft > 0
    /\ triggersLeft' = triggersLeft - 1
    /\ runCleanupCycleCall

\* SystemStats.handleRunCleanup: the "Run cleanup" button
HandleRunCleanup ==
    /\ build = "storage"
    /\ runCleanupCycle
    /\ UNCHANGED schedulerVars
\* the hourly interval of startAutomatedCleanup fires
CleanupIntervalFires ==
    /\ cleanupIntervalId
    /\ runCleanupCycle
    /\ UNCHANGED schedulerVars
\* ... hour after hour, for as long as the page is open
CleanupIntervalKeepsFiring ==
    /\ cleanupIntervalId
    /\ runCleanupCycleCall
    /\ UNCHANGED << schedulerVars, triggersLeft >>
\* the 5 s timeout of startAutomatedCleanup fires
InitialTimeoutFires ==
    /\ initialTimeouts > 0
    /\ initialTimeouts' = initialTimeouts - 1
    /\ runCleanupCycle
    /\ UNCHANGED cleanupIntervalId

startAutomatedCleanup ==
    IF cleanupIntervalId
    THEN UNCHANGED schedulerVars
    ELSE /\ cleanupIntervalId' = TRUE
         /\ initialTimeouts' = initialTimeouts + 1
\* SystemStats.handleStartAutomatedCleanup
HandleStartAutomatedCleanup ==
    /\ build = "storage"
    /\ opsLeft > 0
    /\ opsLeft' = opsLeft - 1
    /\ startAutomatedCleanup
    /\ UNCHANGED << hookVars, build, now, storageVars, browserVars, lastOp, sweepVars, failuresLeft >>
\* SystemStats.handleStopAutomatedCleanup: the interval is cleared, a
\* pending 5 s timeout is not
HandleStopAutomatedCleanup ==
    /\ build = "storage"
    /\ opsLeft > 0
    /\ opsLeft' = opsLeft - 1
    /\ cleanupIntervalId' = FALSE
    /\ UNCHANGED << hookVars, build, now, storageVars, browserVars, lastOp, initialTimeouts,
                    sweepVars, failuresLeft >>

AllDone(tasks) == \A k \in DOMAIN tasks : tasks[k].phase = "done"
\* cleanupExpiredAccounts, batchResults.forEach: the store after the results
\* 1 .. k of the batch were processed
RECURSIVE ProcessBatchResults(_, _, _, _, _)
ProcessBatchResults(st, batch, tasks, k, t) ==
    IF k = 0 THEN st
    ELSE CHOOSE after \in
             {IF tasks[k].success
              THEN markAccountDeleted(before, batch[k].id, t)
              ELSE recordCleanupFailure(before, batch[k].id, t) :
                 before \in {ProcessBatchResults(st, batch, tasks, k - 1, t)}} : TRUE
\* ... and the cycle after it: the counts of the result, and the ids an
\* entry was written for (markAccountDeleted writes one for a stored id)
AfterBatch(cycle, st) ==
    LET batch == BatchOf(cycle.accounts, cycle.i)
        tasks == cycle.tasks
        succeeded == {k \in DOMAIN tasks : tasks[k].success}
        stored == IdsOf(getStoredAccounts(st.accounts))
    IN  [cycle EXCEPT
            !.result = [processed |-> @.processed + Len(batch),
                        successful |-> @.successful + Cardinality(succeeded),
                        failed |-> @.failed + Len(batch) - Cardinality(succeeded)],
            !.logged = @ \cup {batch[k].id : k \in {j \in DOMAIN tasks :
                                    ~tasks[j].success \/ batch[j].id \in stored}},
            !.unstored = @ \cup (IdsOf(batch) \ stored)]
ReturnOf(cycle) ==
    [status |-> "done", result |-> cycle.result, at |-> cycle.at,
     stored |-> cycle.stored, started |-> cycle.started, logged |-> cycle.logged,
     unstored |-> cycle.unstored]

\* cleanupSingleAccount: the deleteAccount call of task k of cycle c
\* settles.  A failure is counted and, if attempts remain, the delay starts.
\* When it was the last call of the batch that was awaited, the results of
\* the batch are processed, and after the last batch the cycle returns.
DeleteAccountSettles ==
    \E c \in DOMAIN sweeps, ok \in BOOLEAN :
      \E k \in DOMAIN sweeps[c].tasks :
        LET cycle == sweeps[c]
            task == cycle.tasks[k]
            batch == BatchOf(cycle.accounts, cycle.i)
            settledTask ==
                IF ok THEN [task EXCEPT !.phase = "done", !.success = TRUE]
                ELSE IF task.attempt < maxRetries
                     THEN [task EXCEPT !.phase = "waiting",
                                       !.delay = backoffDelay(task.attempt)]
                     ELSE [task EXCEPT !.phase = "done"]
            more == cycle.i + batchSize < Len(cycle.accounts)
        IN  /\ cycle.phase = "batch"
            /\ task.phase = "calling"
            /\ IF ok THEN UNCHANGED failuresLeft
               ELSE failuresLeft > 0 /\ failuresLeft' = failuresLeft - 1
            /\ \E tasks \in {[cycle.tasks EXCEPT ![k] = settledTask]},
                  counted \in {IF ok THEN Storage
                               ELSE incrementCleanupAttempts(Storage, batch[k].id, now)} :
                 \E after \in {IF AllDone(tasks)
                                THEN AfterBatch([cycle EXCEPT !.tasks = tasks], counted)
                                ELSE [cycle EXCEPT !.tasks = tasks]} :
                    /\ WriteStorage(IF AllDone(tasks)
                                    THEN ProcessBatchResults(counted, batch, tasks,
                                                             Len(batch), now)
                                    ELSE counted)
                    /\ IF AllDone(tasks) /\ ~more
                       THEN /\ sweeps' = RemoveAt(sweeps, c)
                            /\ finallyReleasesFlag
                            /\ lastReturn' = ReturnOf(after)
                       ELSE /\ sweeps' = [sweeps EXCEPT ![c] =
                                             IF AllDone(tasks)
                                             THEN [after EXCEPT !.phase = "delay"]
                                             ELSE after]
                            /\ UNCHANGED << isCleanupRunning, lastReturn >>
    /\ UNCHANGED << hookVars, build, now, browserVars, opVars, schedulerVars, legacySweeps, forcedCleanups,
                    triggersLeft, deleteCalls >>
\* runCleanupCycle when localStorage.setItem throws (the quota is exceeded):
\* the flag is set, saveAccounts throws in cleanupOldData, catch returns one
\* failure and finally releases the flag
RunCleanupThrows ==
    /\ build = "storage"
    /\ triggersLeft > 0
    /\ triggersLeft' = triggersLeft - 1
    /\ ~isCleanupRunning
    /\ finallyReleasesFlag
    /\ lastReturn' = [ThrownReturn EXCEPT !.at = now]
    /\ UNCHANGED << hookVars, build, now, storageVars, browserVars, opVars, schedulerVars,
                    sweeps, legacySweeps, forcedCleanups, failuresLeft, deleteCalls >>
\* the last deleteAccount call of a batch succeeds and localStorage.setItem
\* throws while the results are processed: saveAccounts throws in
\* markAccountDeleted (the writes of the audit log, which are caught, fail
\* too), cleanupExpiredAccounts throws, and runCleanupCycle returns one
\* failure from its catch and releases the flag in finally
ProcessResultsThrow ==
    /\ \E c \in DOMAIN sweeps :
         \E k \in DOMAIN sweeps[c].tasks :
           LET cycle == sweeps[c]
               tasks == [cycle.tasks EXCEPT ![k].phase = "done", ![k].success = TRUE]
           IN  /\ cycle.phase = "batch"
               /\ cycle.tasks[k].phase = "calling"
               /\ AllDone(tasks)
               /\ sweeps' = RemoveAt(sweeps, c)
               /\ finallyReleasesFlag
               /\ lastReturn' = [ThrownReturn EXCEPT !.at = cycle.at,
                                     !.stored = cycle.stored, !.started = cycle.started]
    /\ UNCHANGED << hookVars, build, now, storageVars, browserVars, opVars, schedulerVars,
                    legacySweeps, forcedCleanups, triggersLeft, failuresLeft,
                    deleteCalls >>
\* cleanupSingleAccount: the delay before the next attempt is over; the
\* token is set and deleteAccount is called again
RetryDelayOver ==
    \E c \in DOMAIN sweeps :
      \E k \in DOMAIN sweeps[c].tasks :
        LET cycle == sweeps[c]
            task == cycle.tasks[k]
            account == BatchOf(cycle.accounts, cycle.i)[k]
        IN  /\ cycle.phase = "batch"
            /\ task.phase = "waiting"
            /\ sweeps' = [sweeps EXCEPT ![c].tasks[k] =
                             [task EXCEPT !.phase = "calling", !.attempt = @ + 1]]
            /\ apiToken' = Some(account.token)
            /\ deleteCalls' = deleteCalls + 1
    /\ UNCHANGED << hookVars, build, now, storageVars, sessionItem, cleanupLogsItem, opVars,
                    schedulerVars, isCleanupRunning, legacySweeps, forcedCleanups, lastReturn,
                    triggersLeft, failuresLeft >>

\* cleanupExpiredAccounts: the pause between two batches is over, the next
\* batch is mapped to cleanupSingleAccount calls
BatchDelayOver ==
    \E c \in DOMAIN sweeps :
        LET cycle == sweeps[c]
            next == StartBatch(cycle, cycle.i + batchSize)
        IN  /\ cycle.phase = "delay"
            /\ sweeps' = [sweeps EXCEPT ![c] = next]
            /\ apiToken' = Some(Last(BatchOf(cycle.accounts, next.i)).token)
            /\ deleteCalls' = deleteCalls + Len(next.tasks)
    /\ UNCHANGED << hookVars, build, now, storageVars, sessionItem, cleanupLogsItem, opVars,
                    schedulerVars, isCleanupRunning, legacySweeps, forcedCleanups, lastReturn,
                    triggersLeft, failuresLeft >>

(***************************************************************************)
(* The cleanup log, localStorage['cleanup-logs']: a list of CleanupLog     *)
(* records, appended at the end and cut at the front.                      *)
(***************************************************************************)
\* "Keep only last 50 logs" in the hook, "the last 100 logs" in the service
HOOK_MAX_LOGS == 50
SERVICE_MAX_LOGS == 100
CleanupLog(accountId, deletedAt, reason, success) ==
    [accountId |-> accountId, deletedAt |-> DateToJSON(deletedAt),
     reason |-> reason, success |-> success]
\* JSON.parse(localStorage.getItem('cleanup-logs') || '[]')
ParseCleanupLogs(item) == IF IsSome(item) THEN Get(item) ELSE << >>
\* a 'cleanup-logs' item whose text is not JSON stands in the model as
\* this list, which no cleanup writes: its account id is no provider id
UnparsableLogs == << CleanupLog(0, 0, "unparsable", FALSE) >>
\* JSON.parse(localStorage.getItem('cleanup-logs')) throws a SyntaxError
ParseThrows(item) == item = Some(UnparsableLogs)
SpliceToFirst(logs, max) ==
    IF Len(logs) > max THEN SubSeq(logs, 1, max) ELSE logs
\* if (logs.length > max) logs.splice(0, logs.length - max)
SpliceToLast(logs, max) ==
    IF Len(logs) > max THEN SubSeq(logs, Len(logs) - max + 1, Len(logs)) ELSE logs
\* the service's logCleanupAttempt catches what it throws
logCleanupAttempt(item, log) ==
    IF ParseThrows(item) THEN item
    ELSE Some(SpliceToLast(Append(ParseCleanupLogs(item), log), SERVICE_MAX_LOGS))

(***************************************************************************)
(* forceCleanupAccount and extendAccountExpiration of the cleanupService.  *)
(* A forceCleanupAccount call that found its account is a record in        *)
(* forcedCleanups while it awaits: account (as getStoredAccount gave it),  *)
(* attempt, and phase ("calling": deleteAccount is awaited, "waiting":     *)
(* the delay before the next attempt is awaited).                          *)
(***************************************************************************)
\* forceCleanupAccount calls that await at the same time
MaxForced == 1
\* forceCleanupAccount up to its first await, or to its return
ForceCleanupAccount ==
    /\ build = "storage"
    /\ opsLeft > 0
    /\ opsLeft' = opsLeft - 1
    /\ \E id \in OpIds :
         \E found \in {getStoredAccount(accountsItem, id)} :
            /\ lastOp' = [op |-> "forceCleanupAccount", id |-> id, stored |-> found]
            /\ IF ~IsSome(found)
               THEN UNCHANGED << forcedCleanups, apiToken, deleteCalls >>
               ELSE /\ Len(forcedCleanups) < MaxForced
                    /\ forcedCleanups' = Append(forcedCleanups,
                           [account |-> Get(found), attempt |-> 1, phase |-> "calling"])
                    /\ apiToken' = Some(Get(found).token)
                    /\ deleteCalls' = deleteCalls + 1
    /\ UNCHANGED << hookVars, build, now, storageVars, sessionItem, cleanupLogsItem,
                    schedulerVars, isCleanupRunning, sweeps, legacySweeps, lastReturn,
                    triggersLeft, failuresLeft >>
\* its deleteAccount call settles: success marks the account deleted, a
\* failure is counted and, if attempts remain, the delay starts
ForcedDeleteSettles ==
    /\ \E f \in DOMAIN forcedCleanups, ok \in BOOLEAN :
         LET task == forcedCleanups[f]
         IN  /\ task.phase = "calling"
             /\ IF ok THEN UNCHANGED failuresLeft
                ELSE failuresLeft > 0 /\ failuresLeft' = failuresLeft - 1
             /\ IF ok
                THEN /\ WriteStorage(markAccountDeleted(Storage, task.account.id, now))
                     /\ forcedCleanups' = RemoveAt(forcedCleanups, f)
                ELSE /\ WriteStorage(incrementCleanupAttempts(Storage, task.account.id, now))
                     /\ forcedCleanups' =
                            IF task.attempt < maxRetries
                            THEN [forcedCleanups EXCEPT ![f].phase = "waiting"]
                            ELSE RemoveAt(forcedCleanups, f)
    /\ UNCHANGED << hookVars, build, now, browserVars, opVars, schedulerVars,
                    isCleanupRunning, sweeps, legacySweeps, lastReturn, triggersLeft,
                    deleteCalls >>
\* the delay before its next attempt is over
ForcedRetryDelayOver ==
    /\ \E f \in DOMAIN forcedCleanups :
         LET task == forcedCleanups[f]
         IN  /\ task.phase = "waiting"
             /\ forcedCleanups' = [forcedCleanups EXCEPT ![f].phase = "calling",
                                                         ![f].attempt = @ + 1]
             /\ apiToken' = Some(task.account.token)
             /\ deleteCalls' = deleteCalls + 1
    /\ UNCHANGED << hookVars, build, now, storageVars, sessionItem, cleanupLogsItem, opVars,
                    schedulerVars, isCleanupRunning, sweeps, legacySweeps, lastReturn,
                    triggersLeft, failuresLeft >>
\* extendAccountExpiration: the new expiry time is set in the list that
\* getStoredAccounts returned, and the list is not saved (the saveAccounts
\* call is commented out); lastOp.stored holds the account of that list
extendAccountExpiration(accountsItem_, accountId, additionalHours) ==
    LET accounts == getStoredAccounts(accountsItem_)
        i == findIndex(accounts, accountId)
    IN  IF i = 0 THEN None
        ELSE Some([accounts[i] EXCEPT !.expiresAt = @ + additionalHours * 3600])
ExtendAccountExpirationOp ==
    /\ build = "storage"
    /\ opsLeft > 0
    /\ \E id \in OpIds, additionalHours \in {1, 2} :
         lastOp' = [op |-> "extendAccountExpiration", id |-> id,
                    stored |-> extendAccountExpiration(accountsItem, id, additionalHours)]
    /\ opsLeft' = opsLeft - 1
    /\ UNCHANGED << storageVars, besideStorage >>

(***************************************************************************)
(* CleanupService of the timer build (src/src/components/AdSenseAd.tsx).   *)
(* A runCleanup call that found expired inboxes is a record in             *)
(* legacySweeps while it awaits: inboxes (what findExpiredInboxes gave),   *)
(* k (the one being cleaned up), deletedAt (when its cleanup began),       *)
(* trigger ("scheduled" or "manual") and, for the properties, rejected     *)
(* (the deleteAccount calls of the sweep that the provider rejected).      *)
(***************************************************************************)
\* MAX_RETENTION_DAYS, in seconds
MaxRetention == 7 * 24 * 60 * 60
findExpiredInboxes(item, t) ==
    IF ~IsSome(item) THEN << >>
    ELSE LET parsed == Get(item)
         IN  IF IsSome(parsed.account) /\ IsSome(parsed.expiresAt)
             THEN LET expiresAt == NewDate(Get(parsed.expiresAt))
                  IN  IF expiresAt <= t \/ expiresAt <= t - MaxRetention
                      THEN << [accountId |-> Get(parsed.account).id,
                               expiresAt |-> expiresAt,
                               address |-> Get(parsed.account).address] >>
                      ELSE << >>
             ELSE << >>
\* cleanupLocalStorage: the session key is removed if it is this account's
cleanupLocalStorage(item, accountId) ==
    IF IsSome(item) /\ IsSome(Get(item).account) /\ Get(Get(item).account).id = accountId
    THEN None
    ELSE item

\* runCleanup up to its first await, or to its return
runCleanup(trigger) ==
    /\ triggersLeft > 0
    /\ triggersLeft' = triggersLeft - 1
    /\ LET expiredInboxes == findExpiredInboxes(sessionItem, now)
       IN  IF expiredInboxes = << >>
           THEN /\ lastReturn' = [NoReturn EXCEPT !.status = "empty"]
                /\ UNCHANGED << legacySweeps, deleteCalls >>
           ELSE /\ legacySweeps' = Append(legacySweeps,
                        [inboxes |-> expiredInboxes, k |-> 1, deletedAt |-> now,
                         trigger |-> trigger, rejected |-> 0])
                /\ deleteCalls' = deleteCalls + 1
                /\ UNCHANGED lastReturn
    /\ UNCHANGED << hookVars, build, now, storageVars, browserVars, opVars, schedulerVars,
                    isCleanupRunning, sweeps, forcedCleanups, failuresLeft >>
\* the hourly interval of startCleanupScheduler fires, or the constructor
\* runs the first cleanup; a deleteAccount call is taken to settle within
\* the hour between two scheduled runs
CleanupTimerFires ==
    /\ build = "timer"
    /\ \A c \in DOMAIN legacySweeps : legacySweeps[c].trigger # "scheduled"
    /\ runCleanup("scheduled")
\* CleanupStatus.handleManualCleanup -> triggerManualCleanup; its button is
\* disabled while a manual cleanup is awaited
HandleManualCleanup ==
    /\ build = "timer"
    /\ \A c \in DOMAIN legacySweeps : legacySweeps[c].trigger # "manual"
    /\ runCleanup("manual")
\* cleanupExpiredInbox: the deleteAccount call settles; local storage is
\* cleaned up and the attempt is logged whatever the outcome, and the loop
\* of runCleanup goes on to the next inbox or returns
LegacyDeleteSettles ==
    \E c \in DOMAIN legacySweeps, ok \in BOOLEAN :
        LET sweep == legacySweeps[c]
            inbox == sweep.inboxes[sweep.k]
            n == Len(sweep.inboxes)
        IN  /\ IF ok THEN UNCHANGED failuresLeft
               ELSE failuresLeft > 0 /\ failuresLeft' = failuresLeft - 1
            /\ sessionItem' = cleanupLocalStorage(sessionItem, inbox.accountId)
            /\ cleanupLogsItem' = logCleanupAttempt(cleanupLogsItem,
                   CleanupLog(inbox.accountId, sweep.deletedAt, "scheduled_cleanup", ok))
            /\ IF sweep.k < n
               THEN /\ legacySweeps' = [legacySweeps EXCEPT
                                           ![c].k = @ + 1,
                                           ![c].deletedAt = now,
                                           ![c].rejected = @ + (IF ok THEN 0 ELSE 1)]
                    /\ deleteCalls' = deleteCalls + 1
                    /\ UNCHANGED lastReturn
               ELSE /\ legacySweeps' = RemoveAt(legacySweeps, c)
                    /\ lastReturn' = [NoReturn EXCEPT !.status = "done",
                           !.result = [processed |-> n, successful |-> n, failed |-> 0]]
                    /\ UNCHANGED deleteCalls
    /\ UNCHANGED << hookVars, build, now, storageVars, apiToken, opVars, schedulerVars,
                    isCleanupRunning, sweeps, forcedCleanups, triggersLeft >>

(***************************************************************************)
(* The useInbox hook: src/src/hooks/useInbox.ts in the timer build,        *)
(* src/unnamed/part_000 in the storage build.  A mutation that is awaiting *)
(* a provider call is a record in creates or deletes, a handleExpiredInbox *)
(* call that is awaiting one is a record in expiries.  The provider gives  *)
(* account nextId the address, the password and the token nextId.          *)
(***************************************************************************)
\* mutations and expiry handlers of one kind that await at the same time
MaxPending == 1

\* domains.filter(d => d.isActive && !d.isPrivate)
activeDomains(ds) == SelectSeq(ds, LAMBDA d : d.isActive /\ ~d.isPrivate)

hookState == << inboxState, timeRemaining, apiToken, sessionItem, messagesQuery >>
resetInboxStateKeepsSession ==
    /\ inboxState' = AnonymousState
    /\ apiToken' = None
    /\ messagesQuery' = IdleQuery
    /\ UNCHANGED << sessionItem, timeRemaining >>
\* resetInboxState of the storage build: the state is anonymous, the token
\* is cleared, the session key and the messages queries are removed
resetInboxState ==
    /\ inboxState' = AnonymousState
    /\ apiToken' = None
    /\ sessionItem' = None
    /\ messagesQuery' = IdleQuery
    /\ UNCHANGED timeRemaining
\* the same in the timer build, where the timer effect then zeroes the
\* countdown
ClearLocalState ==
    /\ inboxState' = AnonymousState
    /\ apiToken' = None
    /\ sessionItem' = None
    /\ messagesQuery' = IdleQuery
    /\ timeRemaining' = 0
\* one provider call settles: it may fail while the budget lasts
Settles(ok) ==
    IF ok THEN UNCHANGED failuresLeft
    ELSE failuresLeft > 0 /\ failuresLeft' = failuresLeft - 1
Ended(op, outcome, id) == lastHook' = [op |-> op, outcome |-> outcome, id |-> id, at |-> now]

\* inboxes are asked for and created while the clock of the model has room
\* to see them expire
CanExpire == now + 2 * ClockStep <= MaxTicks * ClockStep

\* createInboxMutation.onError
CreateInboxOnError ==
    IF build = "storage" THEN resetInboxState ELSE UNCHANGED hookState
\* createInboxMutation.mutate(): mutationFn up to its first await, or to
\* its throw and onError
mutateCreateInbox ==
    /\ IF activeDomains(domains) = << >>
       THEN /\ CreateInboxOnError
            /\ Ended("createInbox", "noDomains", 0)
            /\ UNCHANGED << creates, nextId, createCalls >>
       ELSE /\ nextId <= MaxAccounts
            /\ Len(creates) < MaxPending
            /\ CanExpire
            /\ creates' = Append(creates, [stage |-> "createAccount", id |-> nextId])
            /\ nextId' = nextId + 1
            /\ createCalls' = createCalls + 1
            /\ UNCHANGED << hookState, lastHook >>
    /\ UNCHANGED << build, now, storageVars, cleanupLogsItem, lastOp, schedulerVars,
                    sweepVars, failuresLeft, domains, deletes, expiries, fetchesLeft >>
\* the caller's createInbox()
CreateInbox ==
    /\ opsLeft > 0
    /\ opsLeft' = opsLeft - 1
    /\ mutateCreateInbox
\* the effect of the timer build that creates an inbox when there is none
AutoCreateInbox ==
    /\ build = "timer"
    /\ ~inboxState.isAuthenticated
    /\ creates = << >>
    /\ Len(domains) > 0
    /\ activeDomains(domains) # << >>
    /\ mutateCreateInbox
    /\ UNCHANGED opsLeft

NextStage(stage) ==
    CASE stage = "createAccount" -> "getToken"
      [] stage = "getToken" -> "getAccount"
      [] stage = "getAccount" -> "wait"
\* createAccount, getToken or getAccount settles: mutationFn goes on to its
\* next await (after getToken: mailApi.setToken), or throws to onError
CreateCallSettles ==
    /\ \E c \in DOMAIN creates, ok \in BOOLEAN :
         LET m == creates[c]
         IN  /\ m.stage # "wait"
             /\ Settles(ok)
             /\ IF ok
                THEN /\ creates' = [creates EXCEPT ![c].stage = NextStage(m.stage)]
                     /\ apiToken' = IF m.stage = "getToken" THEN Some(m.id) ELSE apiToken
                     /\ UNCHANGED << inboxState, timeRemaining, sessionItem,
                                     messagesQuery, lastHook >>
                ELSE /\ creates' = RemoveAt(creates, c)
                     /\ CreateInboxOnError
                     /\ Ended("createInbox", "failure", m.id)
    /\ UNCHANGED << build, now, storageVars, cleanupLogsItem, opVars, schedulerVars,
                    sweepVars, domains, deletes, expiries, nextId, fetchesLeft,
                    createCalls >>
\* the state that createInboxMutation.onSuccess sets
NewInboxState(id, t) ==
    IF build = "timer"
    THEN [account |-> Some([id |-> id, address |-> id]), password |-> id,
          isAuthenticated |-> TRUE, expiresAt |-> Some(t + 60 * 60),
          createdAt |-> Some(t), token |-> Some(id)]
    ELSE [account |-> Some([id |-> id, address |-> id]), password |-> id,
          isAuthenticated |-> TRUE, expiresAt |-> Some(t + 10 * 60),
          token |-> Some(id)]
\* the 1 s wait of mutationFn is over: createInboxMutation.onSuccess
CreateInboxOnSuccess ==
    /\ \E c \in DOMAIN creates :
         LET m == creates[c]
             newState == NewInboxState(m.id, now)
             expiresAt == Get(newState.expiresAt)
         IN  /\ m.stage = "wait"
             /\ CanExpire
             /\ creates' = RemoveAt(creates, c)
             /\ inboxState' = newState
             /\ sessionItem' = Some(SessionToJSON(newState))
             /\ timeRemaining' = IF build = "timer" THEN Remaining(expiresAt, now) ELSE 0
             /\ messagesQuery' = IdleQuery
             /\ IF build = "storage"
                THEN /\ WriteStorage(storeAccount(Storage,
                            NewStoredAccount(m.id, m.id, m.id, m.id, expiresAt, now), now))
                     /\ startAutomatedCleanup
                ELSE UNCHANGED << storageVars, schedulerVars >>
             /\ Ended("createInbox", "success", m.id)
    /\ UNCHANGED << build, now, cleanupLogsItem, apiToken, opVars, sweepVars,
                    failuresLeft, domains, deletes, expiries, nextId, fetchesLeft,
                    createCalls >>

\* what the hook appends to 'cleanup-logs'
LogCleanup(item, log) ==
    Some(SpliceToLast(Append(ParseCleanupLogs(item), log), HOOK_MAX_LOGS))
\* the caller's deleteInbox(): mutationFn up to its await, or to its throw
DeleteInbox ==
    /\ opsLeft > 0
    /\ opsLeft' = opsLeft - 1
    /\ IF ~IsSome(inboxState.account)
       THEN /\ Ended("deleteInbox", "noInbox", 0)
            /\ UNCHANGED << deletes, deleteCalls >>
       ELSE /\ Len(deletes) < MaxPending
            /\ deletes' = Append(deletes,
                   [accountId |-> Get(inboxState.account).id, deletedAt |-> now])
            /\ deleteCalls' = deleteCalls + 1
            /\ UNCHANGED lastHook
    /\ UNCHANGED << build, now, storageVars, browserVars, lastOp, schedulerVars,
                    isCleanupRunning, sweeps, legacySweeps, forcedCleanups, lastReturn, triggersLeft,
                    failuresLeft, inboxState, timeRemaining, domains, creates,
                    expiries, messagesQuery, nextId, fetchesLeft, createCalls >>
\* its deleteAccount call settles: the timer build logs the attempt in the
\* finally block of mutationFn, and a JSON.parse that throws there makes
\* the mutation fail; then onSuccess or onError
DeleteInboxSettles ==
    /\ \E d \in DOMAIN deletes, ok \in BOOLEAN :
         LET m == deletes[d]
         IN  /\ Settles(ok)
             /\ deletes' = RemoveAt(deletes, d)
             /\ IF build = "timer"
                THEN IF ParseThrows(cleanupLogsItem)
                     THEN /\ UNCHANGED << cleanupLogsItem, hookState >>
                          /\ Ended("deleteInbox", "threw", m.accountId)
                     ELSE /\ cleanupLogsItem' = LogCleanup(cleanupLogsItem,
                                 CleanupLog(m.accountId, m.deletedAt, "user_requested", ok))
                          /\ IF ok THEN ClearLocalState ELSE UNCHANGED hookState
                          /\ Ended("deleteInbox", IF ok THEN "success" ELSE "failure",
                                   m.accountId)
                ELSE /\ UNCHANGED cleanupLogsItem
                     /\ IF ok THEN resetInboxState ELSE UNCHANGED hookState
                     /\ Ended("deleteInbox", IF ok THEN "success" ELSE "failure",
                              m.accountId)
    /\ UNCHANGED << build, now, storageVars, opVars, schedulerVars, sweepVars,
                    domains, creates, expiries, nextId, fetchesLeft, createCalls >>

\* deleteAccount calls the model lets be issued before the timer stops
\* starting expiry handlers that cannot write their log (and so never reset)
MaxDeleteCalls == 4
\* handleExpiredInbox calls that await at the same time: the interval goes
\* on ticking while a call awaits the provider
MaxExpiring == 2
\* the one-second interval of the timer effect: updateTimer
UpdateTimer ==
    /\ build = "timer"
    /\ IsSome(inboxState.expiresAt)
    /\ inboxState.isAuthenticated
    /\ LET remaining == Remaining(Get(inboxState.expiresAt), now)
       IN  /\ timeRemaining' = remaining
           /\ IF remaining <= 0 /\ IsSome(inboxState.account) /\ Len(expiries) < MaxExpiring
              THEN /\ ParseThrows(cleanupLogsItem) => deleteCalls < MaxDeleteCalls
                   /\ expiries' = Append(expiries,
                          [accountId |-> Get(inboxState.account).id, deletedAt |-> now])
                   /\ deleteCalls' = deleteCalls + 1
              ELSE UNCHANGED << expiries, deleteCalls >>
    /\ UNCHANGED << build, now, storageVars, browserVars, opVars, schedulerVars,
                    isCleanupRunning, sweeps, legacySweeps, forcedCleanups, lastReturn, triggersLeft,
                    failuresLeft, inboxState, domains, creates, deletes,
                    messagesQuery, lastHook, nextId, fetchesLeft, createCalls >>
\* handleExpiredInbox after its deleteAccount call: the attempt is logged
\* and the local state is cleared whatever the outcome; a JSON.parse that
\* throws is caught by the outer catch, past the statements that clear
HandleExpiredInboxSettles ==
    /\ \E e \in DOMAIN expiries, ok \in BOOLEAN :
         LET h == expiries[e]
         IN  /\ Settles(ok)
             /\ expiries' = RemoveAt(expiries, e)
             /\ IF ParseThrows(cleanupLogsItem)
                THEN /\ UNCHANGED << cleanupLogsItem, hookState >>
                     /\ Ended("expiry", "threw", h.accountId)
                ELSE /\ cleanupLogsItem' = LogCleanup(cleanupLogsItem,
                            CleanupLog(h.accountId, h.deletedAt, "timer_expired", ok))
                     /\ ClearLocalState
                     /\ Ended("expiry", IF ok THEN "success" ELSE "failure",
                              h.accountId)
    /\ UNCHANGED << build, now, storageVars, opVars, schedulerVars, sweepVars,
                    domains, creates, deletes, nextId, fetchesLeft, createCalls >>
\* isExpired of the storage build
isExpired == IsSome(inboxState.expiresAt) /\ now > Get(inboxState.expiresAt)
\* the effect of the storage build that runs after every render
ExpiryEffect ==
    /\ build = "storage"
    /\ isExpired
    /\ IsSome(inboxState.account)
    /\ resetInboxState
    /\ Ended("expiry", "reset", Get(inboxState.account).id)
    /\ UNCHANGED << build, now, storageVars, cleanupLogsItem, opVars, schedulerVars,
                    sweepVars, failuresLeft, domains, creates, deletes, expiries,
                    nextId, fetchesLeft, createCalls >>

(***************************************************************************)
(* The messages query of the hook.  A fetch that failed is retried while   *)
(* retry(failureCount) holds, after retryDelay(failureCount) milliseconds; *)
(* failureCount counts the failures of the fetch in a row and delays are   *)
(* the delays it has waited through.                                       *)
(***************************************************************************)
\* retry: (failureCount, error) => failureCount < 3, < 2 in the storage build
messagesRetry(failureCount) ==
    IF build = "timer" THEN failureCount < 3 ELSE failureCount < 2
messagesRetryDelayFlat(attemptIndex) == Min(1000, 30000)
\* retryDelay: (attemptIndex) => Math.min(1000 * 2 ** attemptIndex, 30000),
\* Math.min(2000 * 2 ** attemptIndex, 10000) in the storage build
messagesRetryDelay(attemptIndex) ==
    IF build = "timer"
    THEN Min(1000 * 2 ^ attemptIndex, 30000)
    ELSE Min(2000 * 2 ^ attemptIndex, 10000)
\* enabled
messagesEnabled ==
    /\ IsSome(inboxState.account)
    /\ inboxState.isAuthenticated
    /\ IsSome(inboxState.token)
    /\ build = "timer" => timeRemaining > 0
\* a fetch starts: on mount, by refetchInterval, or by the refetch of the
\* effect that follows an error
FetchMessages ==
    /\ fetchesLeft > 0
    /\ fetchesLeft' = fetchesLeft - 1
    /\ messagesEnabled
    /\ messagesQuery.status \in {"idle", "success", "error"}
    /\ messagesQuery' = [IdleQuery EXCEPT !.status = "fetching"]
    /\ UNCHANGED << build, now, storageVars, browserVars, opVars, schedulerVars,
                    sweepVars, failuresLeft, inboxState, timeRemaining, domains,
                    creates, deletes, expiries, lastHook, nextId, createCalls >>
\* getMessages answers: queryFn returns (the storage build records the
\* access), or it throws and the query retries or gives up; onError of the
\* storage build resets the inbox when the account is gone
MessagesFetchSettles ==
    /\ messagesQuery.status = "fetching"
    /\ \E ok \in BOOLEAN, messageCount \in {0, 1}, gone \in BOOLEAN :
         /\ Settles(ok)
         /\ IF ok
            THEN /\ ~gone
                 /\ messagesQuery' = [messagesQuery EXCEPT !.status = "success",
                                                           !.failureCount = 0]
                 /\ IF build = "storage" /\ IsSome(inboxState.account)
                    THEN WriteStorage(updateAccountAccess(Storage,
                             Get(inboxState.account).id, messageCount, now))
                    ELSE UNCHANGED storageVars
                 /\ UNCHANGED << inboxState, timeRemaining, apiToken, sessionItem, lastHook >>
            ELSE /\ messageCount = 0
                 /\ UNCHANGED storageVars
                 /\ IF messagesRetry(messagesQuery.failureCount)
                    THEN /\ messagesQuery' =
                              [status |-> "waiting",
                               failureCount |-> messagesQuery.failureCount + 1,
                               delays |-> Append(messagesQuery.delays,
                                   messagesRetryDelay(messagesQuery.failureCount)),
                               error |-> "none"]
                         /\ UNCHANGED << inboxState, timeRemaining, apiToken,
                                         sessionItem, lastHook >>
                    ELSE IF build = "storage" /\ gone
                         THEN /\ resetInboxState
                              /\ Ended("messages", "accountGone", 0)
                         ELSE /\ messagesQuery' =
                                   [messagesQuery EXCEPT
                                       !.status = "error",
                                       !.failureCount = @ + 1,
                                       !.error = IF gone THEN AccountGone
                                                 ELSE "other"]
                              /\ UNCHANGED << inboxState, timeRemaining, apiToken,
                                              sessionItem, lastHook >>
    /\ UNCHANGED << build, now, cleanupLogsItem, opVars, schedulerVars, sweepVars,
                    domains, creates, deletes, expiries, nextId, fetchesLeft,
                    createCalls >>
\* the delay before a retry is over: the fetch is made again
MessagesRetryFires ==
    /\ messagesQuery.status = "waiting"
    /\ messagesQuery' = [messagesQuery EXCEPT !.status = "fetching"]
    /\ UNCHANGED << build, now, storageVars, browserVars, opVars, schedulerVars,
                    sweepVars, failuresLeft, inboxState, timeRemaining, domains,
                    creates, deletes, expiries, lastHook, nextId, fetchesLeft,
                    createCalls >>

(***************************************************************************)
(* The cleanup services at work: sweeps started by hand and by the timers, *)
(* over what earlier sessions left in localStorage, while the clock moves, *)
(* the provider answers or fails, and the user of the storage build starts *)
(* and stops the schedule or clears all data.                              *)
(***************************************************************************)
\* sweep calls (by hand or by a timer) made in one behaviour
MaxTriggers == 3
\* provider calls that fail in one behaviour
MaxFailures == 3
\* calls of the user in one behaviour of the cleanup services
MaxSweepOps == 2

\* accounts 101, 102, ...: account 100 + i was created at c + 600 * (i - 1)
\* and expires ten minutes later
StaggeredAccounts(k, c) ==
    [i \in 1 .. k |->
        LET t == c + 600 * (i - 1)
        IN  NewStoredAccount(100 + i, 100 + i, 100 + i, 100 + i, t + 600, t)]
\* two accounts, the second one expiring at time 0
SweepStorage ==
    { [accounts |-> saveAccounts(StaggeredAccounts(2, 0 - 1200)), audit |-> None] }
\* one account more than a batch takes, all expired before time 0
BatchStorage == { EarlierStorage(batchSize + 1, 0, 0 - 1200) }
\* the session of account 101, created at time 0 in the timer build
EarlierSession ==
    [account |-> Some([id |-> 101, address |-> 101]), password |-> 101,
     isAuthenticated |-> TRUE, expiresAt |-> Some(DateToJSON(60 * 60)),
     token |-> Some(101), createdAt |-> Some(DateToJSON(0))]

InitSweep ==
    /\ build \in {"timer", "storage"}
    /\ now = 0
    /\ IF build = "storage"
       THEN /\ \E st \in SweepStorage : accountsItem = st.accounts /\ auditItem = st.audit
            /\ sessionItem = None
       ELSE /\ accountsItem = None /\ auditItem = None
            /\ sessionItem \in {None, Some(EarlierSession)}
    /\ cleanupLogsItem = None
    /\ lastOp = NoOp
    /\ opsLeft = MaxSweepOps
    /\ InitCleanupIdle
    /\ triggersLeft = MaxTriggers
    /\ failuresLeft = MaxFailures
    /\ domains = << >>
    /\ fetchesLeft = 0
    /\ InitHookIdle

NextSweep ==
    \/ AdvanceClock
    \/ HandleRunCleanup
    \/ CleanupIntervalFires
    \/ InitialTimeoutFires
    \/ HandleStartAutomatedCleanup
    \/ HandleStopAutomatedCleanup
    \/ DeleteAccountSettles
    \/ RetryDelayOver
    \/ ClearAllDataOp
    \/ CleanupTimerFires
    \/ HandleManualCleanup
    \/ LegacyDeleteSettles
SpecSweep == InitSweep /\ [][NextSweep]_vars

\* a sweep of the storage build over more accounts than one batch takes
MaxBatchTriggers == 1
MaxBatchFailures == 1
InitSweepBatch ==
    /\ build = "storage"
    /\ now = 0
    /\ \E st \in BatchStorage : accountsItem = st.accounts /\ auditItem = st.audit
    /\ sessionItem = None
    /\ cleanupLogsItem = None
    /\ lastOp = NoOp
    /\ opsLeft = 0
    /\ InitCleanupIdle
    /\ triggersLeft = MaxBatchTriggers
    /\ failuresLeft = MaxBatchFailures
    /\ domains = << >>
    /\ fetchesLeft = 0
    /\ InitHookIdle
NextSweepBatch ==
    \/ AdvanceClock
    \/ HandleRunCleanup
    \/ DeleteAccountSettles
    \/ RetryDelayOver
    \/ BatchDelayOver
SpecSweepBatch == InitSweepBatch /\ [][NextSweepBatch]_vars

(***************************************************************************)
(* The hook at work: the caller creates and deletes inboxes, the provider  *)
(* answers or fails, the clock moves and inboxes expire, over the session  *)
(* an earlier visit may have left.                                         *)
(***************************************************************************)
\* calls of createInbox and deleteInbox made in one behaviour
MaxInboxOps == 2
\* provider calls that fail in one behaviour of the hook
MaxInboxFailures == 1
\* what the domains query may have fetched: nothing, one usable domain, or
\* a private domain and an inactive one
DomainLists ==
    { << >>,
      << [domain |-> 1, isActive |-> TRUE, isPrivate |-> FALSE] >>,
      << [domain |-> 1, isActive |-> TRUE, isPrivate |-> TRUE],
         [domain |-> 2, isActive |-> FALSE, isPrivate |-> FALSE] >> }
\* the session of account 101, created at time 0 in the storage build
EarlierStorageSession ==
    [account |-> Some([id |-> 101, address |-> 101]), password |-> 101,
     isAuthenticated |-> TRUE, expiresAt |-> Some(DateToJSON(10 * 60)),
     token |-> Some(101)]
\* an earlier visit left nothing, or the inbox of account 101
InitEarlierVisit ==
    /\ build \in {"timer", "storage"}
    /\ now = 0
    /\ \E visited \in BOOLEAN :
         IF ~visited
         THEN sessionItem = None /\ accountsItem = None /\ auditItem = None
         ELSE IF build = "timer"
              THEN /\ sessionItem = Some(EarlierSession)
                   /\ accountsItem = None /\ auditItem = None
              ELSE /\ sessionItem = Some(EarlierStorageSession)
                   /\ accountsItem = EarlierStorage(1, 1, 0).accounts
                   /\ auditItem = EarlierStorage(1, 1, 0).audit
InitInbox ==
    /\ InitEarlierVisit
    /\ cleanupLogsItem = None
    /\ domains \in DomainLists
    /\ lastOp = NoOp
    /\ opsLeft = MaxInboxOps
    /\ InitCleanupIdle
    /\ triggersLeft = 0
    /\ failuresLeft = MaxInboxFailures
    /\ fetchesLeft = 0
    /\ InitHookIdle
NextInbox ==
    \/ AdvanceClock
    \/ CreateInbox
    \/ AutoCreateInbox
    \/ CreateCallSettles
    \/ CreateInboxOnSuccess
    \/ DeleteInbox
    \/ DeleteInboxSettles
    \/ UpdateTimer
    \/ HandleExpiredInboxSettles
    \/ ExpiryEffect
SpecInbox == InitInbox /\ [][NextInbox]_vars
\* the interval of the timer effect keeps firing, the provider answers every
\* deleteAccount call, the storage build keeps rendering (its messages
\* query polls while an inbox is active), and time passes
LiveSpecInbox ==
    /\ SpecInbox
    /\ WF_vars(UpdateTimer)
    /\ WF_vars(HandleExpiredInboxSettles)
    /\ WF_vars(ExpiryEffect)
    /\ WF_vars(AdvanceClock)

(***************************************************************************)
(* The writers of 'cleanup-logs' at work in the timer build: the expiry    *)
(* handler and deleteInbox of the hook, and the scheduled cleanup of the   *)
(* CleanupService, over the log that earlier visits left.                  *)
(***************************************************************************)
MaxLogOps == 1
MaxLogTriggers == 1
MaxLogFailures == 1
\* n entries of earlier cleanups, the oldest first
EarlierLogs(n) ==
    [i \in 1 .. n |-> CleanupLog(100, i - n - 1, "scheduled_cleanup", TRUE)]
\* how many entries earlier visits left: none, or up to one of the limits
EarlierLogSizes ==
    {0, HOOK_MAX_LOGS - 1, HOOK_MAX_LOGS, SERVICE_MAX_LOGS - 1, SERVICE_MAX_LOGS}
InitCleanupLogs ==
    /\ build = "timer"
    /\ now = 0
    /\ sessionItem = Some(EarlierSession)
    /\ accountsItem = None
    /\ auditItem = None
    /\ \E n \in EarlierLogSizes :
         cleanupLogsItem = IF n = 0 THEN None ELSE Some(EarlierLogs(n))
    /\ domains \in DomainLists
    /\ lastOp = NoOp
    /\ opsLeft = MaxLogOps
    /\ InitCleanupIdle
    /\ triggersLeft = MaxLogTriggers
    /\ failuresLeft = MaxLogFailures
    /\ fetchesLeft = 0
    /\ InitHookIdle
NextCleanupLogs ==
    \/ AdvanceClock
    \/ AutoCreateInbox
    \/ CreateCallSettles
    \/ CreateInboxOnSuccess
    \/ DeleteInbox
    \/ DeleteInboxSettles
    \/ UpdateTimer
    \/ HandleExpiredInboxSettles
    \/ CleanupTimerFires
    \/ LegacyDeleteSettles
SpecCleanupLogs == InitCleanupLogs /\ [][NextCleanupLogs]_vars

(***************************************************************************)
(* The messages query at work over the inbox an earlier visit left, while  *)
(* the provider answers or fails and the inbox expires.                    *)
(***************************************************************************)
\* fetches of messages started in one behaviour (retries not counted)
MaxFetches == 2
\* provider calls that fail in one behaviour of the messages query
MaxPollFailures == 4
InitPolling ==
    /\ build \in {"timer", "storage"}
    /\ now = 0
    /\ IF build = "timer"
       THEN /\ sessionItem = Some(EarlierSession)
            /\ accountsItem = None /\ auditItem = None
       ELSE /\ sessionItem = Some(EarlierStorageSession)
            /\ accountsItem = EarlierStorage(1, 1, 0).accounts
            /\ auditItem = EarlierStorage(1, 1, 0).audit
    /\ cleanupLogsItem = None
    /\ domains = << >>
    /\ lastOp = NoOp
    /\ opsLeft = 0
    /\ InitCleanupIdle
    /\ triggersLeft = 0
    /\ failuresLeft = MaxPollFailures
    /\ fetchesLeft = MaxFetches
    /\ InitHookIdle
NextPolling ==
    \/ AdvanceClock
    \/ FetchMessages
    \/ MessagesFetchSettles
    \/ MessagesRetryFires
    \/ UpdateTimer
    \/ HandleExpiredInboxSettles
    \/ ExpiryEffect
SpecPolling == InitPolling /\ [][NextPolling]_vars

(***************************************************************************)
(* Sweeps over what earlier sessions left: in the storage build accounts   *)
(* that reach the age of thirty days while the provider fails, in the      *)
(* timer build the session of an inbox that expires.                       *)
(***************************************************************************)
MaxRetentionTriggers == 3
MaxRetentionFailures == 3
MaxRetentionOps == 1
\* account 101 was created thirty days before time 0, account 102 ten
\* minutes after it, and account 103 expires at time 0
AgedAccounts ==
    << NewStoredAccount(101, 101, 101, 101, OldTime + 600, OldTime),
       NewStoredAccount(102, 102, 102, 102, OldTime + 1200, OldTime + 600),
       NewStoredAccount(103, 103, 103, 103, 0, 0 - 600) >>
InitRetention ==
    /\ build \in {"timer", "storage"}
    /\ now = 0
    /\ IF build = "storage"
       THEN accountsItem = saveAccounts(AgedAccounts) /\ sessionItem = None
       ELSE accountsItem = None /\ sessionItem = Some(EarlierSession)
    /\ auditItem = None
    /\ cleanupLogsItem = None
    /\ lastOp = NoOp
    /\ opsLeft = MaxRetentionOps
    /\ InitCleanupIdle
    /\ triggersLeft = MaxRetentionTriggers
    /\ failuresLeft = MaxRetentionFailures
    /\ domains = << >>
    /\ fetchesLeft = 0
    /\ InitHookIdle
NextRetention ==
    \/ AdvanceClock
    \/ HandleRunCleanup
    \/ DeleteAccountSettles
    \/ RetryDelayOver
    \/ ClearAllDataOp
    \/ CleanupTimerFires
    \/ LegacyDeleteSettles
SpecRetention == InitRetention /\ [][NextRetention]_vars

(***************************************************************************)
(* The started schedule of the storage build: the page stays open, the     *)
(* interval fires hour after hour, the provider fails a bounded number of  *)
(* times and accepts from then on.  The store holds the accounts earlier   *)
(* visits left, and account 103 is the inbox that is open.                 *)
(***************************************************************************)
MaxSchedulerFailures == 3
\* the session of account 103
AgedSession ==
    [account |-> Some([id |-> 103, address |-> 103]), password |-> 103,
     isAuthenticated |-> TRUE, expiresAt |-> Some(DateToJSON(0)),
     token |-> Some(103)]
InitScheduler ==
    /\ build = "storage"
    /\ now = 0
    /\ accountsItem = saveAccounts(AgedAccounts)
    /\ auditItem = None
    /\ sessionItem = Some(AgedSession)
    /\ cleanupLogsItem = None
    /\ lastOp = NoOp
    /\ opsLeft = 0
    /\ isCleanupRunning = FALSE
    /\ cleanupIntervalId = TRUE
    /\ initialTimeouts = 1
    /\ sweeps = << >>
    /\ legacySweeps = << >>
    /\ forcedCleanups = << >>
    /\ lastReturn = NoReturn
    /\ deleteCalls = 0
    /\ triggersLeft = 1
    /\ failuresLeft = MaxSchedulerFailures
    /\ domains = << >>
    /\ fetchesLeft = 0
    /\ InitHookIdle
NextScheduler ==
    \/ AdvanceClock
    \/ InitialTimeoutFires
    \/ CleanupIntervalKeepsFiring
    \/ DeleteAccountSettles
    \/ RetryDelayOver
    \/ ExpiryEffect
SpecScheduler == InitScheduler /\ [][NextScheduler]_vars
\* timers fire, calls settle, delays end, effects run
LiveSpecScheduler ==
    /\ SpecScheduler
    /\ WF_vars(AdvanceClock)
    /\ WF_vars(InitialTimeoutFires)
    /\ WF_vars(CleanupIntervalKeepsFiring)
    /\ WF_vars(DeleteAccountSettles)
    /\ WF_vars(RetryDelayOver)
    /\ WF_vars(ExpiryEffect)

(***************************************************************************)
(* The open inbox of the storage build beside a sweep: the messages of     *)
(* account 101 are polled and the inbox is deleted by the caller while a   *)
(* sweep deletes account 102, which an earlier visit left expired.         *)
(***************************************************************************)
MaxTokenTriggers == 1
MaxTokenFailures == 1
MaxTokenFetches == 1
MaxTokenOps == 1
\* account 101 was created at time 0, account 102 twenty minutes before
TokenAccounts ==
    << NewStoredAccount(101, 101, 101, 101, 600, 0),
       NewStoredAccount(102, 102, 102, 102, 0 - 600, 0 - 1200) >>
InitToken ==
    /\ build = "storage"
    /\ now = 0
    /\ accountsItem = saveAccounts(TokenAccounts)
    /\ auditItem = None
    /\ sessionItem = Some(EarlierStorageSession)
    /\ cleanupLogsItem = None
    /\ lastOp = NoOp
    /\ opsLeft = MaxTokenOps
    /\ InitCleanupIdle
    /\ triggersLeft = MaxTokenTriggers
    /\ failuresLeft = MaxTokenFailures
    /\ domains = << >>
    /\ fetchesLeft = MaxTokenFetches
    /\ InitHookIdle
NextToken ==
    \/ AdvanceClock
    \/ HandleRunCleanup
    \/ DeleteAccountSettles
    \/ RetryDelayOver
    \/ FetchMessages
    \/ MessagesFetchSettles
    \/ MessagesRetryFires
    \/ DeleteInbox
    \/ DeleteInboxSettles
    \/ ExpiryEffect
SpecToken == InitToken /\ [][NextToken]_vars

(***************************************************************************)
(* The timer build over a 'cleanup-logs' item that cannot be parsed, or    *)
(* over none: the expiry handler and deleteInbox of the hook, and the      *)
(* scheduled cleanup of the CleanupService.                                *)
(***************************************************************************)
MaxCorruptOps == 1
MaxCorruptTriggers == 1
MaxCorruptFailures == 1
InitCorruptLogs ==
    /\ build = "timer"
    /\ now = 0
    /\ sessionItem = Some(EarlierSession)
    /\ accountsItem = None
    /\ auditItem = None
    /\ cleanupLogsItem \in {None, Some(UnparsableLogs)}
    /\ domains \in DomainLists
    /\ lastOp = NoOp
    /\ opsLeft = MaxCorruptOps
    /\ InitCleanupIdle
    /\ triggersLeft = MaxCorruptTriggers
    /\ failuresLeft = MaxCorruptFailures
    /\ fetchesLeft = 0
    /\ InitHookIdle
NextCorruptLogs ==
    \/ AdvanceClock
    \/ AutoCreateInbox
    \/ CreateCallSettles
    \/ CreateInboxOnSuccess
    \/ DeleteInbox
    \/ DeleteInboxSettles
    \/ UpdateTimer
    \/ HandleExpiredInboxSettles
    \/ CleanupTimerFires
    \/ LegacyDeleteSettles
SpecCorruptLogs == InitCorruptLogs /\ [][NextCorruptLogs]_vars

(***************************************************************************)
(* Direct use of the StorageService over items that earlier sessions, or   *)
(* anything else that writes to localStorage, left malformed.              *)
(***************************************************************************)
MaxMalformedOps == 2
\* texts under 'tempbox-accounts' that do not parse to a list of accounts,
\* the last one with an account in front of the null
MalformedAccountItems ==
    { Some(<< InvalidJSON >>), Some(<< NotAList >>), Some(<< NullEntry >>),
      Some(Append(Get(EarlierStorage(1, 1, 0).accounts), NullEntry)) }
\* the same under 'tempbox-audit-log'
MalformedAuditItems ==
    { Some(<< InvalidJSON >>), Some(<< NotAList >>), Some(<< NullEntry >>),
      Some(Append(Get(EarlierStorage(1, 1, 0).audit), NullEntry)) }
\* one item or both are malformed; the other is what one earlier account left
MalformedStorage ==
    { [accounts |-> a, audit |-> l] :
        a \in MalformedAccountItems \cup {EarlierStorage(1, 1, 0).accounts},
        l \in MalformedAuditItems \cup {EarlierStorage(1, 1, 0).audit} }
    \ { EarlierStorage(1, 1, 0) }
InitMalformed == InitStorageFrom(MalformedStorage, MaxMalformedOps)
SpecMalformed == InitMalformed /\ [][NextStorage]_vars

(***************************************************************************)
(* The life of stored accounts in the storage build: direct calls of the   *)
(* StorageService, sweeps, forced cleanups and extension requests over     *)
(* the accounts earlier sessions left.                                     *)
(***************************************************************************)
MaxLifecycleOps == 2
MaxLifecycleTriggers == 1
MaxLifecycleFailures == 1
\* newest first: account 1, expired and marked deleted by an earlier
\* sweep; account 101, expired; account 102, marked deleted, which reaches
\* the age of thirty days at time 600
LifecycleAccounts ==
    << [NewStoredAccount(1, 1, 1, 1, 0 - 600, 0 - 1200) EXCEPT !.deleted = TRUE],
       NewStoredAccount(101, 101, 101, 101, 0 - 600, 0 - 1200),
       [NewStoredAccount(102, 102, 102, 102, OldTime + 1200, OldTime + 600)
           EXCEPT !.deleted = TRUE] >>
InitLifecycle ==
    /\ build = "storage"
    /\ now = 0
    /\ accountsItem = saveAccounts(LifecycleAccounts)
    /\ auditItem = None
    /\ sessionItem = None
    /\ cleanupLogsItem = None
    /\ lastOp = NoOp
    /\ opsLeft = MaxLifecycleOps
    /\ InitCleanupIdle
    /\ triggersLeft = MaxLifecycleTriggers
    /\ failuresLeft = MaxLifecycleFailures
    /\ domains = << >>
    /\ fetchesLeft = 0
    /\ InitHookIdle
NextLifecycle ==
    \/ AdvanceClock
    \/ StoreAccountOp
    \/ UpdateAccountAccessOp
    \/ MarkAccountDeletedOp
    \/ IncrementCleanupAttemptsOp
    \/ CleanupOldDataOp
    \/ ExtendAccountExpirationOp
    \/ ForceCleanupAccount
    \/ ForcedDeleteSettles
    \/ ForcedRetryDelayOver
    \/ HandleRunCleanup
    \/ DeleteAccountSettles
    \/ RetryDelayOver
SpecLifecycle == InitLifecycle /\ [][NextLifecycle]_vars


(***************************************************************************)
(* The messages query of the storage build alone, over the inbox an        *)
(* earlier visit left: its hook has no countdown, the expiry is noticed by *)
(* the effect that runs after a render.                                    *)
(***************************************************************************)
InitStoragePolling == InitPolling /\ build = "storage"
NextStoragePolling ==
    \/ AdvanceClock
    \/ FetchMessages
    \/ MessagesFetchSettles
    \/ MessagesRetryFires
    \/ ExpiryEffect
SpecStoragePolling == InitStoragePolling /\ [][NextStoragePolling]_vars


(***************************************************************************)
(* The hook of the storage build with an active inbox, beside the sweep    *)
(* and the "clear all data" button of SystemStats.                         *)
(***************************************************************************)
NextSession ==
    \/ AdvanceClock
    \/ HandleRunCleanup
    \/ DeleteAccountSettles
    \/ RetryDelayOver
    \/ FetchMessages
    \/ MessagesFetchSettles
    \/ MessagesRetryFires
    \/ DeleteInbox
    \/ DeleteInboxSettles
    \/ ExpiryEffect
    \/ ClearAllDataOp
SpecSession == InitToken /\ [][NextSession]_vars


(***************************************************************************)
(* Sweeps of the storage build from their start to their end: triggered by *)
(* hand, while the provider answers or fails and localStorage may refuse a *)
(* write.  The provider answers every call and every delay ends.           *)
(***************************************************************************)
MaxEndsTriggers == 2
MaxEndsFailures == 3
InitSweepEnds ==
    /\ build = "storage"
    /\ now = 0
    /\ \E st \in SweepStorage : accountsItem = st.accounts /\ auditItem = st.audit
    /\ sessionItem = None
    /\ cleanupLogsItem = None
    /\ lastOp = NoOp
    /\ opsLeft = 0
    /\ InitCleanupIdle
    /\ triggersLeft = MaxEndsTriggers
    /\ failuresLeft = MaxEndsFailures
    /\ domains = << >>
    /\ fetchesLeft = 0
    /\ InitHookIdle
NextSweepEnds ==
    \/ AdvanceClock
    \/ HandleRunCleanup
    \/ DeleteAccountSettles
    \/ RetryDelayOver
    \/ RunCleanupThrows
    \/ ProcessResultsThrow
SpecSweepEnds == InitSweepEnds /\ [][NextSweepEnds]_vars
LiveSpecSweepEnds ==
    /\ SpecSweepEnds
    /\ WF_vars(DeleteAccountSettles)
    /\ WF_vars(RetryDelayOver)

(***************************************************************************)
(* C1.  At most one cleanup sweep is executing at any time, and a sweep    *)
(* call (by hand or by a timer) made while a sweep is executing starts no  *)
(* sweep and issues no deleteAccount call.                                 *)
(***************************************************************************)
SweepsExecuting == Len(sweeps) + Len(legacySweeps)
SweepCalledWhileRunning == triggersLeft' < triggersLeft /\ SweepsExecuting >= 1
NothingStarted ==
    sweeps' = sweeps /\ legacySweeps' = legacySweeps /\ deleteCalls' = deleteCalls
C1_AtMostOneSweep ==
    [](SweepsExecuting <= 1) /\ [][SweepCalledWhileRunning => NothingStarted]_vars

(***************************************************************************)
(* C2.  As claimed: when a sweep cycle of the storage build has returned,  *)
(* cleanupSingleAccount was called exactly once in it (one call per cycle, *)
(* whatever the number of attempts the call made) for every account that   *)
(* was in the store, not marked deleted, with expiresAt <= now when the    *)
(* cycle selected its candidates, and a DELETED or a CLEANUP_FAILED entry  *)
(* was written for it.                                                     *)
(***************************************************************************)
CycleReturned == build = "storage" /\ lastReturn.status \in {"done", "empty"}
DeletedOnceAndLogged(id) ==
    /\ CountOf(lastReturn.started, id) = 1
    /\ id \in lastReturn.logged
ActiveInboxExpired ==
    /\ IsSome(inboxState.account)
    /\ IsSome(inboxState.expiresAt)
    /\ now > Get(inboxState.expiresAt)
InboxIsAnonymous == inboxState = AnonymousState /\ sessionItem = None
DeleteInboxCalled == Len(deletes') > Len(deletes)
DeleteInboxSettled == Len(deletes') < Len(deletes)
DeleteInboxLogged ==
    LET logs == ParseCleanupLogs(cleanupLogsItem')
    IN  /\ Len(logs) = Min(Len(ParseCleanupLogs(cleanupLogsItem)) + 1, HOOK_MAX_LOGS)
        /\ Last(logs).accountId = lastHook'.id
        /\ Last(logs).reason = "user_requested"
        /\ Last(logs).success = (lastHook'.outcome = "success")
InboxWasReset ==
    inboxState' = AnonymousState /\ apiToken' = None /\ sessionItem' = None
C4_DeleteAlwaysResets ==
    [][DeleteInboxSettled => DeleteInboxLogged /\ InboxWasReset]_vars
(***************************************************************************)
(* C4, amended.  deleteInbox() with an active inbox issues one             *)
(* deleteAccount call for its account.  When the call settles, the timer   *)
(* build appends the attempt with its outcome to the cleanup log and the   *)
(* storage build logs nothing; after a success the inbox is anonymous, the *)
(* token cleared and the session key removed; after a failure the inbox,   *)
(* the token and the session key are what they were.                       *)
(***************************************************************************)
InboxWasKept ==
    inboxState' = inboxState /\ apiToken' = apiToken /\ sessionItem' = sessionItem
C4_DeleteResetsOnSuccess ==
    [][/\ DeleteInboxCalled =>
            /\ deleteCalls' = deleteCalls + 1
            /\ Last(deletes').accountId = Get(inboxState.account).id
       /\ DeleteInboxSettled =>
            /\ IF build = "timer" THEN DeleteInboxLogged
               ELSE cleanupLogsItem' = cleanupLogsItem
            /\ lastHook'.outcome = "success" => InboxWasReset
            /\ lastHook'.outcome = "failure" => InboxWasKept]_vars
\* a deletion that the provider refused left the inbox in place
C4_Witness ==
    /\ lastHook.op = "deleteInbox"
    /\ lastHook.outcome = "failure"
    /\ inboxState.isAuthenticated
    /\ IsSome(sessionItem)

(***************************************************************************)
(* C5.  When no domain of the fetched list is active and not private,      *)
(* createInbox() fails and creates no state: no provider call is made, no  *)
(* session key and no account record is written, and the inbox is          *)
(* anonymous afterwards.                                                   *)
(***************************************************************************)
CreateInboxFoundNoDomain ==
    /\ opsLeft' < opsLeft
    /\ lastHook'.op = "createInbox"
    /\ lastHook'.outcome = "noDomains"
C5_NoDomainNoState ==
    [][CreateInboxFoundNoDomain =>
         /\ activeDomains(domains) = << >>
         /\ createCalls' = createCalls
         /\ creates' = creates
         /\ sessionItem' \in {sessionItem, None}
         /\ storageVars' = storageVars
         /\ inboxState' = AnonymousState]_vars

(***************************************************************************)
(* C9.  The cleanup log never holds more entries than the limit of the     *)
(* writer that wrote it last (50 for the expiry handler and for            *)
(* deleteInbox, 100 for the scheduled cleanup), so never more than 100,    *)
(* and a write keeps the newest entries, the appended one included: the    *)
(* entries it drops are the oldest ones.                                   *)
(***************************************************************************)
CleanupLogs == ParseCleanupLogs(cleanupLogsItem)
LimitOfWriter(reason) ==
    IF reason = "scheduled_cleanup" THEN SERVICE_MAX_LOGS ELSE HOOK_MAX_LOGS
CleanupLogWritten == cleanupLogsItem' # cleanupLogsItem
CleanupLogKeepsNewest ==
    LET before == CleanupLogs
        after == ParseCleanupLogs(cleanupLogsItem')
        kept == Len(after) - 1
    IN  /\ Len(after) >= 1
        /\ Len(after) = Min(Len(before) + 1, LimitOfWriter(Last(after).reason))
        /\ Front(after) = SubSeq(before, Len(before) - kept + 1, Len(before))
C9_CleanupLogCapped ==
    /\ [](Len(CleanupLogs) <= SERVICE_MAX_LOGS)
    /\ [][CleanupLogWritten => CleanupLogKeepsNewest]_vars
\* the expiry handler wrote to a log that had reached a limit: the oldest
\* entries are gone, the newest 49 are kept
C9_Witness ==
    /\ Len(CleanupLogs) = HOOK_MAX_LOGS
    /\ Last(CleanupLogs).reason = "timer_expired"
    /\ \E n \in {HOOK_MAX_LOGS, SERVICE_MAX_LOGS} :
         Front(CleanupLogs) = SubSeq(EarlierLogs(n), n - HOOK_MAX_LOGS + 2, n)

(***************************************************************************)
(* C10.  Every inbox that createInbox creates expires exactly ten minutes  *)
(* after the moment of its creation.                                       *)
(***************************************************************************)
CreateInboxSucceeded ==
    /\ Len(creates') < Len(creates)
    /\ lastHook'.op = "createInbox"
    /\ lastHook'.outcome = "success"
C10_ExpiresAfterTenMinutes ==
    [][CreateInboxSucceeded =>
         /\ inboxState'.expiresAt = Some(now + 10 * 60)
         /\ Get(sessionItem').expiresAt = Some(DateToJSON(now + 10 * 60))]_vars

(***************************************************************************)
(* C6.  As claimed: when a fetch of messages has failed three times in a   *)
(* row, the configured number of retries has been made, each after a       *)
(* longer delay than the one before, and the query is in its error state.  *)
(***************************************************************************)
\* the configured number of retries: the first failureCount that retry refuses
ConfiguredRetries ==
    CHOOSE n \in 0 .. 5 : ~messagesRetry(n) /\ \A k \in 0 .. n - 1 : messagesRetry(k)
DelaysIncrease ==
    \A i \in 1 .. Len(messagesQuery.delays) - 1 :
        messagesQuery.delays[i] < messagesQuery.delays[i + 1]
C6_ThreeFailuresThenError ==
    messagesQuery.failureCount = 3 =>
        /\ Len(messagesQuery.delays) = ConfiguredRetries
        /\ DelaysIncrease
        /\ messagesQuery.status = "error"
(***************************************************************************)
(* C6, amended.  A fetch of messages that keeps failing is retried exactly *)
(* the configured number of times (three times in the timer build, twice   *)
(* in the storage build), each time after a longer delay than before, and  *)
(* the query is in its error state when the last retry has failed too:     *)
(* after the fourth failure in a row in the timer build, after the third   *)
(* in the storage build.  Until then a failed fetch awaits its retry.      *)
(***************************************************************************)
C6_RetriesThenError ==
    /\ messagesQuery.failureCount <= ConfiguredRetries + 1
    /\ Len(messagesQuery.delays) <= ConfiguredRetries
    /\ DelaysIncrease
    /\ messagesQuery.status = "error" <=> messagesQuery.failureCount = ConfiguredRetries + 1
    /\ messagesQuery.status = "error" => Len(messagesQuery.delays) = ConfiguredRetries
    /\ messagesQuery.failureCount \in 1 .. ConfiguredRetries =>
         /\ messagesQuery.status \in {"waiting", "fetching"}
         /\ Len(messagesQuery.delays) = messagesQuery.failureCount
\* the query gave up after its retries
C6_Witness ==
    /\ messagesQuery.status = "error"
    /\ Len(messagesQuery.delays) = ConfiguredRetries
    /\ ConfiguredRetries >= 2

(***************************************************************************)
(* C7.  storeAccount followed by getStoredAccount with the same id gives   *)
(* a record with the id, address, password, token and expiresAt that were  *)
(* stored, every date field a date value of the same instant, whatever     *)
(* the store held before.                                                  *)
(***************************************************************************)
IsDate(x) == x \in Int
SameStoredAccount(got, stored) ==
    /\ got.id = stored.id
    /\ got.address = stored.address
    /\ got.password = stored.password
    /\ got.token = stored.token
    /\ IsDate(got.expiresAt) /\ got.expiresAt = stored.expiresAt
    /\ IsDate(got.createdAt) /\ got.createdAt = stored.createdAt
    /\ IsDate(got.lastAccessedAt) /\ got.lastAccessedAt = stored.lastAccessedAt
C7_StoreThenGetRoundTrip ==
    lastOp.op = "storeAccount" =>
        LET got == getStoredAccount(accountsItem, lastOp.id)
        IN  IsSome(got) /\ SameStoredAccount(Get(got), Get(lastOp.stored))

(***************************************************************************)
(* C8.  The audit log never holds more than MAX_AUDIT_ENTRIES entries,     *)
(* and an entry that a storage operation drops (one that was in the log,   *)
(* or the one the operation appends) is not newer than any entry the       *)
(* operation leaves in the log.                                            *)
(***************************************************************************)
AuditLogWithinCap == Len(getAuditLog(auditItem)) <= MAX_AUDIT_ENTRIES
\* the entry a call of the StorageService appends, if it appends one
ActionOfOp ==
    [storeAccount |-> "CREATED", updateAccountAccess |-> "ACCESSED",
     markAccountDeleted |-> "DELETED", incrementCleanupAttempts |-> "CLEANUP_ATTEMPTED",
     recordCleanupFailure |-> "CLEANUP_FAILED"]
OpAppends ==
    /\ opsLeft' < opsLeft
    /\ lastOp'.op \in DOMAIN ActionOfOp
    /\ lastOp'.op \in {"storeAccount", "recordCleanupFailure"} \/ lastOp'.id \in StoredIds
AppendedEntries ==
    IF OpAppends
    THEN {[accountId |-> lastOp'.id, action |-> ActionOfOp[lastOp'.op], timestamp |-> now]}
    ELSE {}
\* the entries that were in the log or appended by the step, and are not in
\* the log after it
DroppedEntries ==
    LET before == getAuditLog(auditItem)
        after == getAuditLog(auditItem')
    IN  {e \in SeqRange(before) \cup AppendedEntries :
            CountOf(before, e) + Cardinality(AppendedEntries \cap {e}) > CountOf(after, e)}
AuditLogDropsOldest ==
    LET after == getAuditLog(auditItem')
    IN  \A d \in DroppedEntries :
            \A i \in DOMAIN after : d.timestamp <= after[i].timestamp
C8_AuditLogCapped == [](AuditLogWithinCap) /\ [][AuditLogDropsOldest]_vars
\* the log is at its capacity, its newest entry was written after its oldest:
\* an entry was appended to a full log and an old one dropped for it
C8_Witness ==
    LET log == getAuditLog(auditItem)
    IN  /\ Len(log) = MAX_AUDIT_ENTRIES
        /\ lastOp.op # "none"
        /\ log[1].timestamp = now
        /\ log[1].timestamp > log[Len(log)].timestamp

(***************************************************************************)
(* C11.  As claimed: a sweep call that is not skipped selects exactly the  *)
(* stored accounts (in the timer build: the inbox of the persisted         *)
(* session) that are not marked deleted and have expiresAt <= now or       *)
(* createdAt <= now - MAX_RETENTION_DAYS.                                  *)
(***************************************************************************)
\* the accounts in the store (the session's inbox in the timer build)
StoredAccountsNow ==
    IF build = "storage"
    THEN LET accounts == getStoredAccounts(accountsItem)
         IN  {[id |-> accounts[k].id, expiresAt |-> accounts[k].expiresAt,
               createdAt |-> accounts[k].createdAt, deleted |-> accounts[k].deleted] :
                 k \in DOMAIN accounts}
    ELSE IF /\ IsSome(sessionItem)
            /\ IsSome(Get(sessionItem).account)
            /\ IsSome(Get(sessionItem).expiresAt)
         THEN {[id |-> Get(Get(sessionItem).account).id,
                expiresAt |-> NewDate(Get(Get(sessionItem).expiresAt)),
                createdAt |-> NewDate(Get(Get(sessionItem).createdAt)),
                deleted |-> FALSE]}
         ELSE {}
\* a sweep call selects its candidates in this step
SweepSelects ==
    /\ triggersLeft' < triggersLeft
    /\ build = "storage" => ~isCleanupRunning
\* ... and these are the ids it selects
SelectedIds ==
    IF build = "storage"
    THEN IF Len(sweeps') > Len(sweeps) THEN IdsOf(Last(sweeps').accounts) ELSE {}
    ELSE IF Len(legacySweeps') > Len(legacySweeps)
         THEN LET inboxes == Last(legacySweeps').inboxes
              IN  {inboxes[k].accountId : k \in DOMAIN inboxes}
         ELSE {}
FailedAccounts ==
    LET accounts == getStoredAccounts(accountsItem)
    IN  {accounts[k] : k \in {j \in DOMAIN accounts :
                                ~accounts[j].deleted /\ accounts[j].cleanupAttempts > 0}}
StaysStored(a) == a.id \in IdsOf(getStoredAccounts(accountsItem'))
\* the deleteAccount call a sweep made for account id succeeds in this step
\* or has succeeded while the sweep still awaits the rest of its batch
DeletionSucceeds(id) ==
    \E c \in DOMAIN sweeps :
        LET batch == BatchOf(sweeps[c].accounts, sweeps[c].i)
        IN  \E k \in DOMAIN sweeps[c].tasks :
                /\ batch[k].id = id
                /\ \/ sweeps[c].tasks[k].success
                   \/ sweeps[c].tasks[k].phase = "calling" /\ failuresLeft' = failuresLeft
MarkedOnlyBySuccess(a) ==
    \A k \in DOMAIN getStoredAccounts(accountsItem') :
        LET b == getStoredAccounts(accountsItem')[k]
        IN  b.id = a.id /\ b.deleted => DeletionSucceeds(a.id)
SelectedAgain(a) == SweepSelects => a.id \in SelectedIds
StaysUntilDeleted(a) == StaysStored(a) /\ MarkedOnlyBySuccess(a) /\ SelectedAgain(a)
ClearedByUser == lastOp'.op = "clearAllData" /\ opsLeft' < opsLeft
C12_FailedStaysAndIsSelected ==
    [][\A a \in FailedAccounts :
          StaysUntilDeleted(a) \/ (~StaysStored(a) /\ ClearedByUser)]_vars
(***************************************************************************)
(* C12, amended.  The same, unless the account leaves the store unmarked   *)
(* in one more way: a sweep removes it once it was created thirty days ago *)
(* or earlier, and storeAccount drops it from a store that holds           *)
(* MAX_ACCOUNTS_STORED accounts.                                           *)
(***************************************************************************)
PrunedBySweep(a) == SweepSelects /\ a.createdAt <= now - ThirtyDays
EvictedByStore ==
    /\ lastOp'.op = "storeAccount"
    /\ Len(getStoredAccounts(accountsItem)) = MAX_ACCOUNTS_STORED
C12_FailedStaysUnlessPruned ==
    [][\A a \in FailedAccounts :
          \/ StaysUntilDeleted(a)
          \/ ~StaysStored(a) /\ (PrunedBySweep(a) \/ EvictedByStore \/ ClearedByUser)]_vars
\* a sweep has selected an account again after all the attempts of an
\* earlier sweep had failed for it
C12_Witness ==
    \E c \in DOMAIN sweeps :
        \E k \in DOMAIN sweeps[c].accounts :
            sweeps[c].accounts[k].cleanupAttempts >= maxRetries

(***************************************************************************)
(* C13.  As claimed: with the schedule started, every account that is in   *)
(* the store, not marked deleted, with its expiry time passed, is          *)
(* eventually marked deleted, the account of the open inbox included.      *)
(***************************************************************************)
AgedIds == IdsOf(AgedAccounts)
ExpiredInStore(id) ==
    \E a \in StoredAccountsNow : a.id = id /\ ~a.deleted /\ a.expiresAt < now
MarkedDeleted(id) == \E a \in StoredAccountsNow : a.id = id /\ a.deleted
CreatedAtOf(id) == AgedAccounts[CHOOSE k \in DOMAIN AgedAccounts : AgedAccounts[k].id = id].createdAt
PrunedByAge(id) ==
    /\ \A a \in StoredAccountsNow : a.id # id
    /\ CreatedAtOf(id) <= now - ThirtyDays
AuthenticatedCall ==
    \/ messagesQuery'.status = "fetching" /\ messagesQuery.status # "fetching"
    \/ Len(deletes') > Len(deletes)
C14_CallsCarryActiveToken ==
    [][AuthenticatedCall => apiToken = inboxState.token]_vars

(***************************************************************************)
(* C15.  When the deleteAccount call of an expiry handler or of a          *)
(* deleteInbox mutation settles and the active inbox is by then the inbox  *)
(* of another account, created after the handler started, the step leaves  *)
(* the in-memory session, the API token and the persisted session key as   *)
(* they are.                                                               *)
(***************************************************************************)
\* the accounts whose expiry or delete handler settles in this step
SettlingHandlers ==
    (IF Len(expiries') < Len(expiries)
     THEN {expiries[e].accountId : e \in DOMAIN expiries} ELSE {})
    \cup
    (IF Len(deletes') < Len(deletes)
     THEN {deletes[d].accountId : d \in DOMAIN deletes} ELSE {})
ActiveInboxIsNewer(id) ==
    IsSome(inboxState.account) /\ Get(inboxState.account).id # id
C15_StaleHandlerKeepsNewerInbox ==
    [][\A id \in SettlingHandlers :
          ActiveInboxIsNewer(id) =>
              /\ inboxState' = inboxState
              /\ apiToken' = apiToken
              /\ sessionItem' = sessionItem]_vars


(***************************************************************************)
(* C16.  Cleanup over a cleanup log that cannot be parsed.                 *)
(***************************************************************************)
\* the deleteAccount call of a handleExpiredInbox settles in this step
ExpiryCallSettles == Len(expiries') < Len(expiries)
\* the deleteAccount call of a deleteInbox mutation succeeds in this step
DeleteCallSucceeds == Len(deletes') < Len(deletes) /\ failuresLeft' = failuresLeft
\* the inbox is anonymous and 'inbox-state' is removed after the step
InboxIsReset == inboxState' = AnonymousState /\ sessionItem' = None
\* the log holds the entry of this cleanup alone after the step
LogStartsAfresh ==
    /\ IsSome(cleanupLogsItem')
    /\ ~ParseThrows(cleanupLogsItem')
    /\ Len(Get(cleanupLogsItem')) = 1
\* C16: when 'cleanup-logs' cannot be parsed, a step in which the expiry
\* handler's deleteAccount call settles, or in which the deleteAccount call
\* of the user's deleteInbox succeeds, treats the log as empty, resets the
\* inbox to anonymous and removes the 'inbox-state' item.
C16_CleanupCompletesOverUnparsableLog ==
    [][ParseThrows(cleanupLogsItem) /\ (ExpiryCallSettles \/ DeleteCallSucceeds)
            => InboxIsReset /\ LogStartsAfresh]_vars


(***************************************************************************)
(* C17.  Reads of malformed stored data.                                   *)
(***************************************************************************)
\* a StorageService operation is called in this step
StorageOpRuns == opsLeft' < opsLeft
\* over a malformed accounts item the operation does what it does over an
\* empty store: storeAccount writes the new account alone, cleanupOldData
\* an empty list, clearAllData removes the item, the others find no
\* account and write nothing
AccountsOpCompletes ==
    IF lastOp'.op = "storeAccount"
    THEN /\ ~ReadThrows(accountsItem')
         /\ getStoredAccounts(accountsItem') = << Get(lastOp'.stored) >>
    ELSE IF lastOp'.op = "cleanupOldData" THEN accountsItem' = Some(<< >>)
    ELSE IF lastOp'.op = "clearAllData" THEN accountsItem' = None
    ELSE accountsItem' = accountsItem
\* over a malformed audit log the operation logs as over an empty log: the
\* log it writes holds its own entry at most
AuditOpCompletes ==
    IF lastOp'.op = "clearAllData" THEN auditItem' = None
    ELSE IF lastOp'.op = "cleanupOldData" THEN auditItem' = Some(<< >>)
    ELSE \/ auditItem' = auditItem /\ lastOp'.op \notin {"storeAccount", "recordCleanupFailure"}
         \/ /\ ~ReadThrows(auditItem')
            /\ Len(getAuditLog(auditItem')) = 1
            /\ getAuditLog(auditItem')[1].accountId = lastOp'.id
            /\ getAuditLog(auditItem')[1].timestamp = now
\* C17: getStoredAccounts and getAuditLog give an empty list for an item
\* that is invalid JSON, not a list, or a list with a null entry, and every
\* storage operation called over such an item completes as over an empty
\* collection.
C17_MalformedDataReadsAsEmpty ==
    [][/\ ReadThrows(accountsItem) => getStoredAccounts(accountsItem) = << >>
       /\ ReadThrows(auditItem) => getAuditLog(auditItem) = << >>
       /\ StorageOpRuns /\ ReadThrows(accountsItem) => AccountsOpCompletes
       /\ StorageOpRuns /\ ReadThrows(auditItem) => AuditOpCompletes]_vars
\* an operation has run over a malformed accounts item and found no account
C17_Witness ==
    /\ lastOp.op = "updateAccountAccess"
    /\ ReadThrows(accountsItem)
    /\ ~ReadThrows(auditItem)


(***************************************************************************)
(* C18.  Accounts marked deleted stay marked.                              *)
(***************************************************************************)
\* the ids of the stored accounts, and of those marked deleted
IdsIn(item) == {a.id : a \in SeqRange(getStoredAccounts(item))}
DeletedIn(item) == {a.id : a \in {b \in SeqRange(getStoredAccounts(item)) : b.deleted}}
\* the account is marked deleted before the step, is in the store after it
\* and is not marked deleted any more
Undeleted(id) ==
    /\ id \in DeletedIn(accountsItem)
    /\ id \in IdsIn(accountsItem')
    /\ id \notin DeletedIn(accountsItem')
\* storeAccount is called for the id in this step
StoredAgain(id) ==
    opsLeft' < opsLeft /\ lastOp'.op = "storeAccount" /\ lastOp'.id = id
ExpiresAtIn(item, id) ==
    LET accounts == getStoredAccounts(item)
    IN  accounts[findIndex(accounts, id)].expiresAt
\* the account is in the store before and after the step, with another
\* expiry time after it
ExpiryChanged(id) ==
    /\ id \in IdsIn(accountsItem')
    /\ ExpiresAtIn(accountsItem', id) # ExpiresAtIn(accountsItem, id)
HoldsStoredExpiry(id) == ExpiresAtIn(accountsItem', id) = Get(lastOp'.stored).expiresAt
InProgress(cycle) == {k \in DOMAIN cycle.tasks : cycle.tasks[k].phase # "done"}
\* the cycle goes on to a later batch in this step
NextBatchStarts(c) == c \in DOMAIN sweeps' /\ sweeps'[c].i > sweeps[c].i
\* C20: during a sweep at most batchSize accounts have a deletion in
\* progress at the same time, and the deletions of a later batch start
\* only when every account of the batch before has finished its attempts.
C20_DeletionsBatchByBatch ==
    [][\A c \in DOMAIN sweeps :
          /\ Cardinality(InProgress(sweeps[c])) <= batchSize
          /\ NextBatchStarts(c) => AllDone(sweeps[c].tasks)]_vars
\* the second batch is in progress after a failed attempt
C20_Witness ==
    \E c \in DOMAIN sweeps :
        /\ sweeps[c].i > 0
        /\ InProgress(sweeps[c]) # {}
        /\ failuresLeft < MaxBatchFailures


(***************************************************************************)
(* C21.  The attempts a sweep makes for one candidate account.             *)
(***************************************************************************)
\* the cleanupSingleAccount calls of the sweeps that are awaiting
TasksOf(cycles) == {<< c, k >> : c \in DOMAIN cycles, k \in 1 .. batchSize}
TaskAt(cycles, ck) == cycles[ck[1]].tasks[ck[2]]
HasTask(cycles, ck) == ck[1] \in DOMAIN cycles /\ ck[2] \in DOMAIN cycles[ck[1]].tasks
\* the same call in this state and in the next one
SameCall(ck) ==
    /\ HasTask(sweeps, ck) /\ HasTask(sweeps', ck)
    /\ Len(sweeps') = Len(sweeps)
    /\ sweeps'[ck[1]].i = sweeps[ck[1]].i
    /\ sweeps'[ck[1]].at = sweeps[ck[1]].at
\* a call does not go past its last attempt, waits only after a failed
\* attempt that was not the last, for retryDelay * 2^(k-1) after the k-th,
\* and has returned once an attempt succeeded
AttemptsBounded ==
    \A ck \in TasksOf(sweeps) : HasTask(sweeps, ck) =>
        \E task \in {TaskAt(sweeps, ck)} :
            /\ task.attempt \in 1 .. maxRetries
            /\ task.phase = "waiting" =>
                   /\ ~task.success
                   /\ task.attempt < maxRetries
                   /\ task.delay = retryDelay * 2 ^ (task.attempt - 1)
            /\ task.success => task.phase = "done"
\* the next attempt is made only when the delay after the one before is
\* over, and none is made by a call that has returned
AttemptsInTurn ==
    \A ck \in TasksOf(sweeps) : SameCall(ck) =>
        \E task \in {TaskAt(sweeps, ck)}, after \in {TaskAt(sweeps', ck)} :
            /\ task.phase = "done" => after = task
            /\ after.attempt # task.attempt =>
                   /\ task.phase = "waiting"
                   /\ after.phase = "calling"
                   /\ after.attempt = task.attempt + 1
            /\ (task.phase = "calling" /\ after.phase = "done" /\ ~after.success)
                   => task.attempt = maxRetries
\* C21: for each candidate account a sweep makes at most maxRetries (3)
\* delete attempts, one after another, none after the first success, and
\* waits retryDelay * 2^(k-1) after the k-th failed attempt before the next
\* one, and not after the last
C21_RetriesWithBackoff == [][AttemptsBounded /\ AttemptsBounded' /\ AttemptsInTurn]_vars
\* one call waited 2 s and 4 s and failed its third attempt while the
\* other call of the batch is still awaited
C21_Witness ==
    \E ck \in TasksOf(sweeps) : HasTask(sweeps, ck) /\
        \E task \in {TaskAt(sweeps, ck)} :
            /\ task.attempt = maxRetries
            /\ task.phase = "done"
            /\ ~task.success
            /\ task.delay = 2 * retryDelay


(***************************************************************************)
(* C22.  The cleanup-attempt counter of an account over a sweep.           *)
(***************************************************************************)
\* the counter the store holds for a stored id
AttemptsIn(item, id) ==
    LET accounts == getStoredAccounts(item)
    IN  accounts[findIndex(accounts, id)].cleanupAttempts
\* the account a call was made for, as the sweep selected it
Candidate(cycles, ck) == BatchOf(cycles[ck[1]].accounts, cycles[ck[1]].i)[ck[2]]
\* the attempts of a call that have failed so far
FailedAttempts(task) ==
    IF task.phase = "calling" \/ task.success THEN task.attempt - 1 ELSE task.attempt
\* C22 (as claimed): when the call for an account has returned, the counter
\* of the account is one more than when the sweep selected it if all
\* retries failed, and the same if the deletion succeeded.
C22_CounterPlusOnePerExhaustedSweep ==
    \A ck \in TasksOf(sweeps) : HasTask(sweeps, ck) =>
        \E task \in {TaskAt(sweeps, ck)}, account \in {Candidate(sweeps, ck)} :
            (task.phase = "done" /\ account.id \in IdsIn(accountsItem)) =>
                AttemptsIn(accountsItem, account.id) =
                    account.cleanupAttempts + (IF task.success THEN 0 ELSE 1)
\* the counter of a stored candidate is what it was when the sweep selected
\* it plus the attempts that have failed
CountedPerFailedAttempt ==
    \A ck \in TasksOf(sweeps) : HasTask(sweeps, ck) =>
        \E task \in {TaskAt(sweeps, ck)}, account \in {Candidate(sweeps, ck)} :
            account.id \in IdsIn(accountsItem) =>
                AttemptsIn(accountsItem, account.id) =
                    account.cleanupAttempts + FailedAttempts(task)
\* the deleteAccount call of a sweep for the id settles in this step
CallSettles(id) ==
    \E ck \in TasksOf(sweeps) :
        /\ HasTask(sweeps, ck)
        /\ Candidate(sweeps, ck).id = id
        /\ TaskAt(sweeps, ck).phase = "calling"
        /\ HasTask(sweeps', ck) => TaskAt(sweeps', ck) # TaskAt(sweeps, ck)
\* a step adds one to the counter of an account that stays in the store
\* when a call of a sweep for it fails, and leaves it unchanged otherwise
CountsOnlyFailedAttempts ==
    \A id \in IdsIn(accountsItem) \cap IdsIn(accountsItem') :
        AttemptsIn(accountsItem', id) =
            AttemptsIn(accountsItem, id) +
                (IF CallSettles(id) /\ failuresLeft' < failuresLeft THEN 1 ELSE 0)
\* C22 (amended): the counter of an account that stays in the store goes up
\* by one with every failed delete attempt of a sweep, so by maxRetries (3)
\* in a sweep that exhausts the retries and by the number of failed attempts
\* before the success (0 to 2) in a sweep whose deletion succeeds; nothing
\* else in a sweep changes it.
C22_CounterCountsFailedAttempts ==
    [][CountedPerFailedAttempt /\ CountedPerFailedAttempt'
        /\ CountsOnlyFailedAttempts]_vars
\* a call has failed all its attempts for an account that is still stored,
\* and the counter is three more than when the sweep selected the account
C22_Witness ==
    \E ck \in TasksOf(sweeps) : HasTask(sweeps, ck) /\
        \E task \in {TaskAt(sweeps, ck)}, account \in {Candidate(sweeps, ck)} :
            /\ task.phase = "done" /\ ~task.success
            /\ account.id \in IdsIn(accountsItem)
            /\ AttemptsIn(accountsItem, account.id) = account.cleanupAttempts + maxRetries


(***************************************************************************)
(* C23.  Requests for the message list and the expiry of the inbox.        *)
(***************************************************************************)
\* getMessages is called in this step: by a fetch that starts or by a retry
MessagesRequested ==
    messagesQuery'.status = "fetching" /\ messagesQuery.status # "fetching"
\* the expiry time of the inbox the hook holds has passed
ExpiryHasPassed ==
    IsSome(inboxState.expiresAt) /\ now > Get(inboxState.expiresAt)
\* C23: a request for the message list is issued only while the inbox is
\* authenticated and its expiry time has not passed.
C23_PollsOnlyWhileActive ==
    [][MessagesRequested => (inboxState.isAuthenticated /\ ~ExpiryHasPassed)]_vars


(***************************************************************************)
(* C24.  A poll that fails because the provider has deleted the account.   *)
(***************************************************************************)
\* in this step the messages query ends with the provider's error for an
\* account that no longer exists: the query holds the error, or onError of
\* the storage build has handled it
PollFailsAccountGone ==
    /\ messagesQuery.status = "fetching"
    /\ \/ messagesQuery'.status = "error" /\ messagesQuery'.error = AccountGone
       \/ /\ lastHook' # lastHook
          /\ lastHook'.op = "messages" /\ lastHook'.outcome = "accountGone"
\* the inbox is anonymous, the token is cleared and the session key removed
ResetToAnonymous ==
    /\ inboxState = AnonymousState
    /\ apiToken = None
    /\ sessionItem = None
\* C24: when a polling request fails with the provider's 'This account no
\* longer exists.' error, the inbox is reset to anonymous: the in-memory
\* state is cleared, the API token is cleared and the session key removed.
C24_AccountGoneResetsInbox ==
    [][PollFailsAccountGone => ResetToAnonymous']_vars


(***************************************************************************)
(* C25.  The timers of the scheduler after it was stopped.                 *)
(***************************************************************************)
\* the scheduler of the storage build is stopped (or was never started):
\* stopAutomatedCleanup has set cleanupIntervalId to null
SchedulerStopped == build = "storage" /\ ~cleanupIntervalId
\* the callback of a 5 s timeout of startAutomatedCleanup runs in this step
InitialSweepFires == initialTimeouts' < initialTimeouts
\* C25: after the scheduler is stopped none of the timers it started fires
\* again: no initial delayed sweep (and no hourly sweep) starts afterwards.
C25_NoTimerFiresAfterStop ==
    [][SchedulerStopped => ~InitialSweepFires]_vars


(***************************************************************************)
(* C26.  The expiry handler while its delete call is awaited.              *)
(***************************************************************************)
\* the handleExpiredInbox calls that await deleteAccount for the account
ExpiryCallsFor(id) == {e \in DOMAIN expiries : expiries[e].accountId = id}
\* the entries the expiry handler has written for the account
ExpiryLogsFor(id) ==
    {i \in DOMAIN CleanupLogs :
        CleanupLogs[i].accountId = id /\ CleanupLogs[i].reason = "timer_expired"}
\* C26: when an inbox expires, the expiry handler issues exactly one remote
\* delete call for it and appends exactly one cleanup-log entry, however long
\* the call takes: no two calls for one account await at the same time, and
\* no account has two entries of the handler.
C26_OneDeleteCallPerExpiry ==
    \A id \in {expiries[e].accountId : e \in DOMAIN expiries} :
        /\ Cardinality(ExpiryCallsFor(id)) <= 1
        /\ Cardinality(ExpiryCallsFor(id)) + Cardinality(ExpiryLogsFor(id)) <= 1


(***************************************************************************)
(* C27.  Accounts created at the provider and what is recorded of them.    *)
(***************************************************************************)
\* the createInbox mutation c has its account at the provider: its
\* createAccount call has succeeded
AccountCreated(c) == creates[c].stage \in {"getToken", "getAccount", "wait"}
\* the mutation c ends in this step
CreateEnds(c) ==
    /\ lastHook' # lastHook
    /\ lastHook'.op = "createInbox"
    /\ lastHook'.id = creates[c].id
\* the account is the active session or is in the account store
RecordedLocally(id) ==
    \/ /\ IsSome(inboxState.account) /\ Get(inboxState.account).id = id
       /\ IsSome(sessionItem)
    \/ id \in IdsIn(accountsItem)
\* C27: every account successfully created at the provider is recorded
\* locally: a createInbox that ends after its createAccount call succeeded,
\* with a failure too, leaves the account as the active session or in the
\* account store.
C27_CreatedAccountIsRecorded ==
    [][\A c \in DOMAIN creates : \A id \in {creates[c].id} :
          (AccountCreated(c) /\ CreateEnds(c)) => RecordedLocally(id)']_vars


(***************************************************************************)
(* C28.  The session key 'inbox-state' and the inbox in memory.            *)
(***************************************************************************)
\* C28: the session key 'inbox-state' is present exactly when the in-memory
\* inbox is authenticated, and then holds the same account, token and expiry
\* time; no operation removes the key while the inbox stays active.
C28_SessionKeyMirrorsInbox ==
    /\ IsSome(sessionItem) <=> inboxState.isAuthenticated
    /\ inboxState.isAuthenticated =>
           \E saved \in {Get(sessionItem)} :
               /\ saved.account = inboxState.account
               /\ saved.token = inboxState.token
               /\ NewDateOrNull(saved.expiresAt) = inboxState.expiresAt


(***************************************************************************)
(* C29.  Every sweep ends and releases the flag.                           *)
(***************************************************************************)
\* the flag is set exactly while a cycle is awaiting
FlagHeldBySweep == isCleanupRunning <=> sweeps # << >>
\* runCleanupCycle is called in this step
SweepTriggered == triggersLeft' < triggersLeft
\* the call ran a sweep: it returned the result of an empty sweep or of an
\* exception, or a cycle is awaiting
SweepRan ==
    \/ lastReturn'.status \in {"empty", "threw"}
    \/ Len(sweeps') > Len(sweeps)
\* C29: provided every remote call settles, every sweep ends and releases
\* the sweep-running flag, whether it ends normally, with no candidates or
\* through an exception; a trigger issued while no sweep runs always runs a
\* sweep.
C29_SweepEndsAndReleasesFlag ==
    /\ [](FlagHeldBySweep)
    /\ isCleanupRunning ~> ~isCleanupRunning
    /\ [][(SweepTriggered /\ sweeps = << >>) => SweepRan]_vars
\* a sweep is running after an earlier one has ended through an exception
C29_Witness ==
    /\ isCleanupRunning
    /\ lastReturn.status = "threw"
    /\ lastReturn.started # << >>


(***************************************************************************)
(* C30.  The result a sweep returns and the outcomes of its delete calls.  *)
(***************************************************************************)
\* the deleteAccount call that settles in this step is rejected
CallRejected == failuresLeft' < failuresLeft
\* the result that reports s deletions that succeeded and f that failed
ResultOf(s, f) == [processed |-> s + f, successful |-> s, failed |-> f]
\* a runCleanup call of the timer build returns in this step with the
\* result its delete calls make
LegacyResultReportsOutcomes ==
    \A c \in DOMAIN legacySweeps :
        (Len(legacySweeps') < Len(legacySweeps)
            /\ legacySweeps' = RemoveAt(legacySweeps, c)) =>
        \E n \in {Len(legacySweeps[c].inboxes)},
           f \in {legacySweeps[c].rejected + (IF CallRejected THEN 1 ELSE 0)} :
            lastReturn'.result = ResultOf(n - f, f)
\* a runCleanupCycle call of the storage build returns in this step with
\* the result its delete calls make: the accounts of the batches before, the
\* tasks of the last batch that are done, and the call that settles
CycleResultReportsOutcomes ==
    \A c \in DOMAIN sweeps :
        (Len(sweeps') < Len(sweeps) /\ sweeps' = RemoveAt(sweeps, c)) =>
        \E cycle \in {sweeps[c]} :
          \E s \in {cycle.result.successful
                      + Cardinality({k \in DOMAIN cycle.tasks : cycle.tasks[k].success})
                      + (IF CallRejected THEN 0 ELSE 1)},
             f \in {cycle.result.failed
                      + Cardinality({k \in DOMAIN cycle.tasks :
                            cycle.tasks[k].phase = "done" /\ ~cycle.tasks[k].success})
                      + (IF CallRejected THEN 1 ELSE 0)} :
            lastReturn'.result = ResultOf(s, f)
\* C30: the result a sweep returns reports the actual outcomes: its success
\* count is the number of accounts whose remote deletion succeeded in the
\* sweep, its failure count the number whose remote deletion failed, and
\* its processed count their sum.
C30_ResultReportsOutcomes ==
    [][LegacyResultReportsOutcomes /\ CycleResultReportsOutcomes]_vars

=============================================================================
